---- MODULE Spec2Model ----
(***************************************************************************)
(* Byte-level model of the crab-dads page map (crab-dads/src/page/mod.rs), *)
(* of the copy-on-write B+ tree writer and reader built on it              *)
(* (crab-dads/src/btree/writer.rs, reader.rs) and of the BasicDb pager the *)
(* tree is exercised with (crab-dads/src/btree/mod.rs).                    *)
(*                                                                         *)
(* A page is its content region (an array of byte cells) plus the two      *)
(* trailer lengths and the page type.  The key-value array grows up from   *)
(* cell 0, the info array grows down from cell CONTENT_SIZE.  Every        *)
(* pointer copy of the source is a cell copy here, so that a wrong offset  *)
(* or a wrong length in the source shows up as wrong bytes in the model.   *)
(***************************************************************************)
EXTENDS Integers, Sequences, FiniteSets, TLC

\* ---------------------------------------------------------------------
\* Geometry.  The page size is scaled down so that a handful of entries
\* fills a page; every formula of the source that mentions the page size
\* is kept as written (CONTENT_SIZE, PAGE_4K * 3 / 4).
\* ---------------------------------------------------------------------
PAGE_4K == 82

TrailerSize == 8

CONTENT_SIZE == PAGE_4K - TrailerSize

\* Largest value length a leaf accepts (scaled with the page).
MAX_VAR_SIZE == 26

\* Number of page numbers the pager may hand out.
MaxPages == 8

\* The depth at which a descent gives up (64 in the source, scaled).
MaxLevels == 12

\* The pages one call of next() or next_back() is followed through; a call
\* that has loaded that many branch pages is reported as still running.
MaxLoads == MaxLevels + 2

\* Keys are 1..MaxKey.
MaxKey == 3

\* Number of reader handles.
MaxReaders == 2

\* Number of commits the writer may perform.
MaxCommits == 3

\* Number of insert, replace and delete calls of one run of the tree alone.
MaxOps == 5

\* Number of insert and delete calls of one run against the reference map.
MapOps == 3

\* Number of insert, replace and delete calls of one run of the whole
\* database, and the largest key such a run uses.
DbOps == 2

MaxDbKey == 1

\* The bytes a cell that was never written may hold: alloc_paged does not
\* initialise the memory it returns.
JunkBytes == {0, 255}

\* Decoded integers are exact below Huge; Huge stands for every larger u64.
Huge == 2^30

Min(a, b) == IF a < b THEN a ELSE b

Max(a, b) == IF a > b THEN a ELSE b

\* A local binding of the code (let x = v): f = [x \in {v} |-> e] is e with
\* x bound to v.
Bind(f) == LET g == f IN g[CHOOSE x \in DOMAIN g : TRUE]

\* ---------------------------------------------------------------------
\* Layouts.  "L" is the leaf layout (u64 -> bytes), "B" the branch layout
\* (u64 -> u64 page number).
\* ---------------------------------------------------------------------
InfoSize(ly) == IF ly = "L" THEN 2 ELSE 1

\* Number of bytes of a u64 once its high zero bytes are trimmed.
TrimmedLen(x) ==
  IF x = 0 THEN 0 ELSE IF x < 256 THEN 1 ELSE IF x < 65536 THEN 2 ELSE IF x < 16777216 THEN 3 ELSE 4

determine_key_len(ly, key) == IF ly = "L" THEN 8 ELSE Max(TrimmedLen(key), 1)

determine_value_len(ly, value) == IF ly = "L" THEN Len(value) ELSE TrimmedLen(value)

\* Little-endian bytes of x, n of them.
RECURSIVE LeBytes(_, _)
LeBytes(x, n) == IF n = 0 THEN <<>> ELSE <<x % 256>> \o LeBytes(x \div 256, n - 1)

\* from_le_bytes, saturating at Huge.
RECURSIVE LeValue(_)
LeValue(bytes) ==
  IF bytes = <<>> THEN 0
  ELSE LET hi == LeValue(Tail(bytes))
       IN IF hi >= Huge \div 256 THEN Huge ELSE Head(bytes) + 256 * hi

KeyBytes(ly, key) == LeBytes(key, determine_key_len(ly, key))

ValBytes(ly, value) == IF ly = "L" THEN value ELSE LeBytes(value, determine_value_len(ly, value))

\* The info record written for a pair, as InfoSize(ly) little-endian bytes.
InfoBytes(ly, kl, vl) == IF ly = "L" THEN LeBytes(vl, 2) ELSE <<(8 - kl) + 8 * (8 - vl)>>

key_len(ly, info) == IF ly = "L" THEN 8 ELSE 8 - (LeValue(info) % 8)

value_len(ly, info) == IF ly = "L" THEN LeValue(info) ELSE 8 - Min((LeValue(info) \div 8) % 16, 8)

read_key(ly, bytes) == LeValue(bytes)

read_value(ly, bytes) == IF ly = "L" THEN bytes ELSE LeValue(bytes)

\* ---------------------------------------------------------------------
\* Pages and raw cell access.  A page is the array of its PAGE_4K byte
\* cells; offsets are the source's byte offsets (0-based), so offset o is
\* cell o + 1.  The trailer occupies the last TrailerSize bytes:
\* lower_len (u16), upper_len (u16), three unused bytes, page_type.
\* ---------------------------------------------------------------------
Cells == 1..PAGE_4K

\* The byte every uninitialised cell holds in this run.
VARIABLE junk

Junk == junk

\* alloc_paged: the memory of a fresh page is not initialised.
FreshPage == [i \in Cells |-> Junk]

\* A page image as the array of its bytes.
Bytes(p) == SubSeq(p, 1, PAGE_4K)

\* Read n cells starting at offset off; a read outside the page yields Junk.
ReadCells(cells, off, n) ==
  [j \in 1..n |-> IF off + j \in Cells THEN cells[off + j] ELSE Junk]

\* core::ptr::copy / copy_nonoverlapping of n bytes from src at srcOff to
\* dst at dstOff (the source cells are read before any cell is written).
CopyCells(src, srcOff, dst, dstOff, n) ==
  Bind([a \in {[from |-> src, to |-> dst, srcOff |-> srcOff, dstOff |-> dstOff, n |-> n]} |->
    Bytes([i \in Cells |->
       IF i > a.dstOff /\ i <= a.dstOff + a.n
         THEN (IF a.srcOff + (i - a.dstOff) \in Cells THEN a.from[a.srcOff + (i - a.dstOff)]
               ELSE Junk)
         ELSE a.to[i]])])

\* A copy or write of n bytes to offset dstOff that leaves the page.
Escapes(dstOff, n) == n > 0 /\ (dstOff < 0 \/ dstOff + n > PAGE_4K)

\* Write the byte sequence bytes at offset off.
WriteCells(cells, off, bytes) ==
  Bind([a \in {[cells |-> cells, off |-> off, bytes |-> bytes]} |->
    Bytes([i \in Cells |->
       IF i > a.off /\ i <= a.off + Len(a.bytes) THEN a.bytes[i - a.off] ELSE a.cells[i]])])

lower_len(p) == LeValue(ReadCells(p, CONTENT_SIZE, 2))

upper_len(p) == LeValue(ReadCells(p, CONTENT_SIZE + 2, 2))

page_type(p) == p[PAGE_4K]

set_lower_len(p, len) == WriteCells(p, CONTENT_SIZE, LeBytes(len % 65536, 2))

set_upper_len(p, len) == WriteCells(p, CONTENT_SIZE + 2, LeBytes(len % 65536, 2))

add_to_lower_len(p, delta) == set_lower_len(p, lower_len(p) + delta)

add_to_upper_len(p, delta) == set_upper_len(p, upper_len(p) + delta)

upper_bytes(p, ly) == upper_len(p) * InfoSize(ly)

total(p, ly) == lower_len(p) + upper_bytes(p, ly)

data_len(p, ly) == total(p, ly)

free_space(p, ly) == CONTENT_SIZE - total(p, ly)

LayoutOf(p) == IF page_type(p) % 2 = 1 THEN "L" ELSE "B"

\* PageMapMut::new on the memory of page p: only the type and the two
\* lengths are written.
PageMapMut_new(p, pt) == set_upper_len(set_lower_len(WriteCells(p, PAGE_4K - 1, <<pt>>), 0), 0)

\* TwoArrayTrailer::lengths as used by from_page: the lengths must fit.
from_page_ok(p, ly) == total(p, ly) <= CONTENT_SIZE

\* Info record of entry i (0 = smallest key): it sits at
\* CONTENT_SIZE - (i + 1) * sizeof(Info).
InfoAt(p, ly, i) == ReadCells(p, CONTENT_SIZE - (i + 1) * InfoSize(ly), InfoSize(ly))

\* ---------------------------------------------------------------------
\* Iteration.  PageIter::next_internal walks the info array from entry 0
\* and the key-value array from offset 0; it stops with DataCorruption
\* when a pair would cross the end of the key-value array, or when the
\* info array is exhausted and the key-value array is not.
\* items are the pairs produced before the end, err is TRUE when the
\* iteration ends in DataCorruption instead of None.
\* ---------------------------------------------------------------------
RECURSIVE IterFwd(_, _, _, _, _)
IterFwd(p, ly, i, front, acc) ==
  IF i >= upper_len(p)
    THEN [items |-> acc, err |-> (front # lower_len(p))]
    ELSE Bind([info \in {InfoAt(p, ly, i)} |->
         Bind([kl \in {key_len(ly, info)} |->
         Bind([vl \in {value_len(ly, info)} |->
           IF front + kl + vl > lower_len(p)
             THEN [items |-> acc, err |-> TRUE]
             ELSE IterFwd(p, ly, i + 1, front + kl + vl,
                    Append(acc, [k |-> read_key(ly, ReadCells(p, front, kl)),
                                 v |-> read_value(ly, ReadCells(p, front + kl, vl)),
                                 off |-> front, kl |-> kl, vl |-> vl, idx |-> i]))])])])

iter(p, ly) == IterFwd(p, ly, 0, 0, <<>>)

\* PageIter::next_back_internal: from the last entry and the end of the
\* key-value array downwards.
RECURSIVE IterBack(_, _, _, _, _)
IterBack(p, ly, i, back, acc) ==
  IF i < 0
    THEN [items |-> acc, err |-> (back # 0)]
    ELSE Bind([info \in {InfoAt(p, ly, i)} |->
         Bind([kl \in {key_len(ly, info)} |->
         Bind([vl \in {value_len(ly, info)} |->
           IF back - vl - kl < 0
             THEN [items |-> acc, err |-> TRUE]
             ELSE IterBack(p, ly, i - 1, back - vl - kl,
                    Append(acc, [k |-> read_key(ly, ReadCells(p, back - vl - kl, kl)),
                                 v |-> read_value(ly, ReadCells(p, back - vl, vl)),
                                 off |-> back - vl - kl, kl |-> kl, vl |-> vl, idx |-> i]))])])])

iter_rev(p, ly) == IterBack(p, ly, upper_len(p) - 1, lower_len(p), <<>>)

\* The (key, value) pairs a full forward iteration yields.
Pairs(p, ly) ==
  Bind([it \in {iter(p, ly)} |-> [i \in 1..Len(it.items) |-> <<it.items[i].k, it.items[i].v>>]])

Keys(p, ly) == Bind([it \in {iter(p, ly)} |-> [i \in 1..Len(it.items) |-> it.items[i].k]])

\* PageMap::get_pair: linear scan, stops at the first larger key.
RECURSIVE get_pair_scan(_, _, _)
get_pair_scan(it, key, j) ==
  IF j > Len(it.items)
    THEN (IF it.err THEN [res |-> "err"] ELSE [res |-> "none"])
    ELSE IF it.items[j].k = key THEN [res |-> "some", k |-> it.items[j].k, v |-> it.items[j].v]
    ELSE IF it.items[j].k < key THEN get_pair_scan(it, key, j + 1)
    ELSE [res |-> "none"]

get_pair(p, ly, key) == get_pair_scan(iter(p, ly), key, 1)

\* A copy of the lower array alone.
copy_lower_only(p, ly, dst) == CopyCells(p, 0, dst, 0, lower_len(p))

\* PageMap::copy_to: the lower array, then the info array with the trailer.
copy_to(p, ly, dst) ==
  LET c1 == CopyCells(p, 0, dst, 0, lower_len(p))
      ub == upper_bytes(p, ly) + TrailerSize
  IN CopyCells(p, PAGE_4K - ub, c1, PAGE_4K - ub, ub)

\* ---------------------------------------------------------------------
\* PageMapMut::entry: scan from the largest key downwards.  The result
\* records where the cursors stand: idx is the entry index (Occupied) or
\* the index the new entry will take (Vacant), off is the offset of the
\* pair (Occupied: kv.back) or of the insertion point (Vacant:
\* kv.prev_back_key).
\* ---------------------------------------------------------------------
RECURSIVE entry_scan(_, _, _, _, _)
entry_scan(p, ly, key, i, back) ==
  IF i < 0
    THEN (IF back # 0 THEN [kind |-> "err"]
          ELSE [kind |-> "vacant", idx |-> 0, off |-> 0, kl |-> 0, vl |-> 0])
    ELSE Bind([info \in {InfoAt(p, ly, i)} |->
         Bind([kl \in {key_len(ly, info)} |->
         Bind([vl \in {value_len(ly, info)} |->
         Bind([new_back \in {back - vl - kl} |->
           IF new_back < 0 THEN [kind |-> "err"]
           ELSE Bind([k \in {read_key(ly, ReadCells(p, new_back, kl))} |->
                  IF k = key
                    THEN [kind |-> "occupied", idx |-> i, off |-> new_back, kl |-> kl, vl |-> vl]
                  ELSE IF k < key
                    THEN [kind |-> "vacant", idx |-> i + 1, off |-> back, kl |-> 0, vl |-> 0]
                  ELSE entry_scan(p, ly, key, i - 1, new_back)])])])])])

PageMapMut_entry(p, ly, key) == entry_scan(p, ly, key, upper_len(p) - 1, lower_len(p))

\* OccupiedEntry::first (page level): the entry is the first pair of the page.
first(e) == e.idx = 0

\* The insertion writes outside the page: the shift of the key-value
\* bytes, the shift of the info records or the pair itself leaves it.
InsertEscapes(p, ly, e, key, value) ==
  LET pair == determine_key_len(ly, key) + determine_value_len(ly, value)
      sz == InfoSize(ly)
      end == CONTENT_SIZE - upper_len(p) * sz
  IN \/ Escapes(e.off + pair, lower_len(p) - e.off)
     \/ Escapes(end - sz, (CONTENT_SIZE - e.idx * sz) - end)
     \/ Escapes(e.off, pair)

\* Shared body of VacantEntry::insert and insert_vectored once the space
\* check has passed: kv.back_insert, the trailer, info.back_insert, then
\* the key and the value are written.
InsertAt(p, ly, e, key, value) ==
  LET kl == determine_key_len(ly, key)
      vl == determine_value_len(ly, value)
      sz == InfoSize(ly)
      end == CONTENT_SIZE - upper_len(p) * sz
      prev_back == CONTENT_SIZE - e.idx * sz
  IN Bind([c1 \in {CopyCells(p, e.off, p, e.off + kl + vl, lower_len(p) - e.off)} |->
     Bind([t1 \in {add_to_upper_len(add_to_lower_len(c1, kl + vl), 1)} |->
     Bind([c2 \in {CopyCells(t1, end, t1, end - sz, prev_back - end)} |->
     Bind([c3 \in {WriteCells(c2, prev_back - sz, InfoBytes(ly, kl, vl))} |->
     Bind([c4 \in {WriteCells(c3, e.off, KeyBytes(ly, key))} |->
       WriteCells(c4, e.off + kl, ValBytes(ly, value))])])])])])

TooLarge(ly, value) == ly = "L" /\ Len(value) > MAX_VAR_SIZE

\* The space check of VacantEntry::insert (page/mod.rs:639).
InsertOutOfSpace(needed, free) == needed > free

\* A VacantEntry::insert that adds the pair to the trailer lengths before
\* it checks the space.
VacantEntry_insert_counts_first(p, ly, e, key, value) ==
  LET needed == determine_key_len(ly, key) + determine_value_len(ly, value) + InfoSize(ly)
      free == CONTENT_SIZE - total(p, ly)
  IN IF TooLarge(ly, value) THEN [res |-> "WriteTooLarge", page |-> p, oob |-> FALSE]
     ELSE IF InsertOutOfSpace(needed, free)
       THEN [res |-> "OutofSpace", page |-> add_to_upper_len(p, 1), oob |-> FALSE]
     ELSE [res |-> "ok", page |-> InsertAt(p, ly, e, key, value),
           oob |-> InsertEscapes(p, ly, e, key, value)]

VacantEntry_insert(p, ly, e, key, value) ==
  LET needed == determine_key_len(ly, key) + determine_value_len(ly, value) + InfoSize(ly)
      free == CONTENT_SIZE - total(p, ly)
  IN IF TooLarge(ly, value) THEN [res |-> "WriteTooLarge", page |-> p, oob |-> FALSE]
     ELSE IF InsertOutOfSpace(needed, free) THEN [res |-> "OutofSpace", page |-> p, oob |-> FALSE]
     ELSE [res |-> "ok", page |-> InsertAt(p, ly, e, key, value),
           oob |-> InsertEscapes(p, ly, e, key, value)]

\* The space check of VacantEntry::insert_vectored (page/mod.rs:690).
InsertVectoredOutOfSpace(needed, free) == needed < free

VacantEntry_insert_vectored(p, ly, e, key, value) ==
  LET needed == determine_key_len(ly, key) + determine_value_len(ly, value) + InfoSize(ly)
      free == CONTENT_SIZE - total(p, ly)
  IN IF TooLarge(ly, value) THEN [res |-> "WriteTooLarge", page |-> p, oob |-> FALSE]
     ELSE IF InsertVectoredOutOfSpace(needed, free) THEN [res |-> "OutofSpace", page |-> p, oob |-> FALSE]
     ELSE [res |-> "ok", page |-> InsertAt(p, ly, e, key, value),
           oob |-> InsertEscapes(p, ly, e, key, value)]

\* OccupiedEntry::delete: info.back_delete, kv.delete, the trailer.
OccupiedEntry_delete(p, ly, e) ==
  LET sz == InfoSize(ly)
      end == CONTENT_SIZE - upper_len(p) * sz
      prev_back == CONTENT_SIZE - (e.idx + 1) * sz
      pair == e.kl + e.vl
  IN Bind([c1 \in {CopyCells(p, end, p, end + sz, prev_back - end)} |->
     Bind([c2 \in {CopyCells(c1, e.off + pair, c1, e.off, lower_len(p) - (e.off + pair))} |->
       add_to_upper_len(add_to_lower_len(c2, 0 - pair), -1)])])

\* The space check of OccupiedEntry::replace (page/mod.rs:562).
ReplaceOutOfSpace(free, delta) == free < delta

\* OccupiedEntry::replace / replace_vectored: kv.resize, the trailer, then
\* the value and its info are rewritten.
OccupiedEntry_replace(p, ly, e, value) ==
  LET new_len == determine_value_len(ly, value)
      delta == new_len - e.vl
      free == CONTENT_SIZE - total(p, ly)
      prev_back_key == e.off + e.kl + e.vl
  IN IF TooLarge(ly, value) THEN [res |-> "WriteTooLarge", page |-> p, oob |-> FALSE]
     ELSE IF ReplaceOutOfSpace(free, delta) THEN [res |-> "OutofSpace", page |-> p, oob |-> FALSE]
     ELSE
       Bind([c1 \in {CopyCells(p, prev_back_key, p, prev_back_key + delta, lower_len(p) - prev_back_key)} |->
       Bind([t1 \in {add_to_lower_len(c1, delta)} |->
       Bind([c2 \in {WriteCells(t1, e.off + e.kl, ValBytes(ly, value))} |->
         [res |-> "ok",
          page |-> WriteCells(c2, CONTENT_SIZE - (e.idx + 1) * InfoSize(ly),
                              InfoBytes(ly, e.kl, new_len)),
          oob |-> Escapes(prev_back_key + delta, lower_len(p) - prev_back_key)]])])])

\* ---------------------------------------------------------------------
\* find_cutpoint: walk the info array from the largest key, adding up the
\* bytes to move.  The result is lower_len = key-value bytes of the pairs
\* taken, upper_bytes = info bytes of the pairs not taken.
\* ---------------------------------------------------------------------
RECURSIVE cut_scan(_, _, _, _, _, _, _)
cut_scan(p, ly, i, move_amount, taken_lower, target, max) ==
  IF i < 0 THEN [err |-> "UnexpectedNoOp"]
  ELSE Bind([info \in {InfoAt(p, ly, i)} |->
       Bind([pair_len \in {key_len(ly, info) + value_len(ly, info)} |->
       Bind([add_len \in {pair_len + InfoSize(ly)} |->
         IF add_len + move_amount > target
           THEN Bind([leave \in {(add_len + move_amount - target > target - move_amount)
                       \/ (move_amount + add_len > max)} |->
                Bind([taken \in {IF leave THEN taken_lower ELSE taken_lower + pair_len} |->
                  IF taken > lower_len(p) THEN [err |-> "DataCorruption"]
                  ELSE [err |-> "ok", lower_len |-> taken,
                        upper_bytes |-> i * InfoSize(ly) + (IF leave THEN InfoSize(ly) ELSE 0)]])])
           ELSE cut_scan(p, ly, i - 1, move_amount + add_len, taken_lower + pair_len,
                         target, max)])])])

find_cutpoint(p, ly, target, max) == cut_scan(p, ly, upper_len(p) - 1, 0, 0, target, max)

\* Offset in the source page at which split_to starts copying key-value
\* bytes into the new page (page/mod.rs:154 copies from self.page).
SplitCopyFrom(p, cutpoint) == 0

\* PageMapMut::split_to into the memory new_mem.  The result is the source
\* page after the call (src) and the new page (dst).
split_to(p, ly, new_mem) ==
  Bind([new_page \in {PageMapMut_new(new_mem, page_type(p))} |->
  Bind([cutpoint \in {find_cutpoint(p, ly, total(p, ly) \div 2, total(p, ly))} |->
    IF cutpoint.err # "ok" THEN [err |-> cutpoint.err, src |-> p, dst |-> new_page]
    ELSE
      LET split_lower_len == lower_len(p) - cutpoint.lower_len
          upper_len_bytes == upper_bytes(p, ly)
          split_upper_len_bytes == upper_len_bytes - cutpoint.upper_bytes
      IN Bind([c1 \in {CopyCells(p, SplitCopyFrom(p, cutpoint), new_page, 0, split_lower_len)} |->
         Bind([c2 \in {CopyCells(p, CONTENT_SIZE - upper_len_bytes,
                        c1, CONTENT_SIZE - split_upper_len_bytes, split_upper_len_bytes)} |->
           [err |-> "ok",
            src |-> set_upper_len(set_lower_len(p, cutpoint.lower_len),
                                  cutpoint.upper_bytes \div InfoSize(ly)),
            dst |-> set_upper_len(set_lower_len(c2, split_lower_len),
                                  split_upper_len_bytes \div InfoSize(ly))]])])])])

\* The merge test of PageMapMut::balance (page/mod.rs:194).
CanMerge(self_len, higher_len) == (self_len + higher_len) < CONTENT_SIZE

\* Offset in self from which balance copies key-value bytes into the
\* higher page (page/mod.rs:234).
BalanceCopyFrom(self, cutpoint) == cutpoint.lower_len

\* PageMapMut::balance.  kind is "Merged" (lower holds everything, higher
\* is as it was left) or "Balanced".
PageMapMut_balance(self, higher, ly) ==
  LET self_len == data_len(self, ly)
      higher_len == data_len(higher, ly)
      sz == InfoSize(ly)
      higher_upper_bytes == upper_bytes(higher, ly)
      self_upper_bytes == upper_bytes(self, ly)
  IN IF CanMerge(self_len, higher_len)
       THEN Bind([c1 \in {CopyCells(higher, 0, self, lower_len(self), lower_len(higher))} |->
            Bind([c2 \in {CopyCells(higher, CONTENT_SIZE - higher_upper_bytes,
                           c1, CONTENT_SIZE - higher_upper_bytes - self_upper_bytes,
                           higher_upper_bytes)} |->
              [err |-> "ok", kind |-> "Merged", oob |-> FALSE,
               lower |-> add_to_upper_len(add_to_lower_len(c2, lower_len(higher)),
                                          upper_len(higher)),
               higher |-> higher]])])
     ELSE IF self_len > higher_len
       THEN Bind([cutpoint \in {find_cutpoint(self, ly, (self_len - higher_len) \div 2, free_space(higher, ly))} |->
              IF cutpoint.err # "ok"
                THEN [err |-> cutpoint.err, kind |-> "none", oob |-> FALSE,
                      lower |-> self, higher |-> higher]
              ELSE
                Bind([h1 \in {CopyCells(higher, 0, higher, cutpoint.lower_len, lower_len(higher))} |->
                Bind([h2 \in {CopyCells(self, BalanceCopyFrom(self, cutpoint), h1, 0, cutpoint.lower_len)} |->
                Bind([h3 \in {CopyCells(h2, CONTENT_SIZE - higher_upper_bytes,
                               h2, CONTENT_SIZE - higher_upper_bytes - cutpoint.upper_bytes,
                               higher_upper_bytes)} |->
                Bind([h4 \in {CopyCells(self, CONTENT_SIZE - self_upper_bytes,
                               h3, CONTENT_SIZE - higher_upper_bytes - cutpoint.upper_bytes,
                               cutpoint.upper_bytes)} |->
                  [err |-> "ok", kind |-> "Balanced",
                   oob |-> Escapes(cutpoint.lower_len, lower_len(higher))
                           \/ Escapes(CONTENT_SIZE - higher_upper_bytes - cutpoint.upper_bytes,
                                      higher_upper_bytes),
                   lower |-> add_to_upper_len(add_to_lower_len(self, 0 - cutpoint.lower_len),
                                              0 - (cutpoint.upper_bytes \div sz)),
                   higher |-> add_to_upper_len(add_to_lower_len(h4, cutpoint.lower_len),
                                               cutpoint.upper_bytes \div sz)]])])])])])
     ELSE Bind([cutpoint \in {find_cutpoint(higher, ly, (higher_len - self_len) \div 2, free_space(self, ly))} |->
            IF cutpoint.err # "ok"
              THEN [err |-> cutpoint.err, kind |-> "none", oob |-> FALSE,
                    lower |-> self, higher |-> higher]
            ELSE
              Bind([s1 \in {CopyCells(higher, 0, self, lower_len(self), cutpoint.lower_len)} |->
              Bind([h1 \in {CopyCells(higher, cutpoint.lower_len, higher, 0,
                             lower_len(higher) - cutpoint.lower_len)} |->
              Bind([s2 \in {CopyCells(h1, CONTENT_SIZE - cutpoint.upper_bytes,
                             s1, CONTENT_SIZE - self_upper_bytes - cutpoint.upper_bytes,
                             cutpoint.upper_bytes)} |->
              Bind([h2 \in {CopyCells(h1, CONTENT_SIZE - higher_upper_bytes,
                             h1, CONTENT_SIZE - higher_upper_bytes + cutpoint.upper_bytes,
                             higher_upper_bytes)} |->
                [err |-> "ok", kind |-> "Balanced",
                 oob |-> Escapes(lower_len(self), cutpoint.lower_len)
                         \/ Escapes(CONTENT_SIZE - higher_upper_bytes + cutpoint.upper_bytes,
                                    higher_upper_bytes),
                 lower |-> add_to_upper_len(add_to_lower_len(s2, cutpoint.lower_len),
                                            cutpoint.upper_bytes \div sz),
                 higher |-> add_to_upper_len(add_to_lower_len(h2, 0 - cutpoint.lower_len),
                                             0 - (cutpoint.upper_bytes \div sz))]])])])])])

\* ---------------------------------------------------------------------
\* The pager (BasicDbWrite) and the tree writer, as operators on a machine
\* record m that is threaded through one tree operation:
\*   memory, dirty        page number -> page (committed / this transaction)
\*   page_num, to_drop    the allocator's counter and its deferred frees
\*   commit               the writer's commit counter
\*   root, branches, leaf the BTreeWrite fields; a handle is the page a
\*                        PageMapMut points at (ptr) with the page number
\*                        stored beside it (num)
\*   err                  "ok" or the error the operation returned
\*   ub                   a write left its page or went through a handle to
\*                        freed memory
\* ---------------------------------------------------------------------
NoHandle == [ptr |-> -1, num |-> -1]

\* A decoded integer the model cannot carry on with.
Unbounded(x) == x >= Huge

Fail(m, e) == [m EXCEPT !.err = e]

\* The bytes a pointer to page ptr reads.
PageOf(m, ptr) ==
  IF ptr \in DOMAIN m.dirty THEN m.dirty[ptr]
  ELSE IF ptr \in DOMAIN m.memory THEN m.memory[ptr]
  ELSE FreshPage

\* A write through a pointer to page ptr lands where the page lives.
Store(m, ptr, p) ==
  IF ptr \in DOMAIN m.dirty THEN [m EXCEPT !.dirty[ptr] = p]
  ELSE IF ptr \in DOMAIN m.memory THEN [m EXCEPT !.memory[ptr] = p]
  ELSE [m EXCEPT !.ub = TRUE]

\* BasicDbWrite::allocate; the new page is number m.page_num.  The pager
\* hands out MaxPages page numbers at most.
allocate(m) ==
  IF m.page_num >= MaxPages THEN Fail(m, "Bound")
  ELSE [m EXCEPT !.dirty = (m.page_num :> FreshPage) @@ m.dirty, !.page_num = @ + 1]

\* BasicDbWrite::deallocate.
deallocate(m, page) ==
  IF page \in DOMAIN m.dirty
    THEN [m EXCEPT !.dirty = [n \in DOMAIN m.dirty \ {page} |-> m.dirty[n]]]
  ELSE IF Len(m.to_drop) > 0 /\ m.to_drop[Len(m.to_drop)].tag = m.commit + 1
    THEN [m EXCEPT !.to_drop[Len(m.to_drop)].pages = Append(@, page)]
  ELSE [m EXCEPT !.to_drop = Append(@, [tag |-> m.commit + 1, pages |-> <<page>>])]

\* BasicDbWrite::load_mut answers Dirty for a page of this transaction.
load_mut_is_dirty(m, page) == page \in DOMAIN m.dirty

\* WritePage::try_load.  kind is the layout of the loaded page, ptr the
\* page the returned PageMapMut points at, new the new page number of a
\* Clean load (-1 for a Dirty one).
try_load(m, page) ==
  IF load_mut_is_dirty(m, page)
    THEN Bind([d \in {PageOf(m, page)} |->
           [m |-> IF from_page_ok(d, LayoutOf(d)) THEN m ELSE Fail(m, "DataCorruption"),
            kind |-> LayoutOf(d), ptr |-> page, new |-> -1]])
  ELSE IF page \notin DOMAIN m.memory
    THEN [m |-> Fail(m, "StorageError"), kind |-> "L", ptr |-> -1, new |-> -1]
  ELSE Bind([m1 \in {allocate(m)} |->
         LET write_page == m.page_num
             read == m.memory[page]
             ly == LayoutOf(read)
         IN IF m1.err # "ok" THEN [m |-> m1, kind |-> ly, ptr |-> -1, new |-> -1]
            ELSE IF ~from_page_ok(read, ly)
              THEN [m |-> Fail(m1, "DataCorruption"), kind |-> ly, ptr |-> -1, new |-> -1]
            ELSE [m |-> deallocate(Store(m1, write_page,
                                         copy_to(read, ly, PageOf(m1, write_page))), page),
                  kind |-> ly, ptr |-> write_page, new |-> write_page]])

\* BTreeWrite::load.
BTreeWrite_load(m, page) ==
  Bind([t \in {try_load(m, page)} |->
    LET root_page_num == IF t.new # -1 THEN t.new ELSE page
        h == [ptr |-> t.ptr, num |-> root_page_num]
    IN IF t.m.err # "ok" THEN [m |-> t.m, new |-> -1]
       ELSE [m |-> [t.m EXCEPT !.root = root_page_num,
                               !.branches = IF t.kind = "B" THEN <<h>> ELSE <<>>,
                               !.leaf = IF t.kind = "L" THEN h ELSE NoHandle],
             new |-> t.new]])

\* branches.truncate(1)
truncate1(branches) == IF Len(branches) > 1 THEN <<branches[1]>> ELSE branches

\* The child a branch page selects for key (writer.rs:159-167): entries
\* are met from the largest key down, the last one met is kept, and the
\* walk stops at the first separator not above key.
RECURSIVE branch_seek(_, _, _)
branch_seek(it, key, j) ==
  IF j > Len(it.items)
    THEN (IF it.err THEN [res |-> "err"]
          ELSE IF j = 1 THEN [res |-> "none"]
          ELSE [res |-> "some", item |-> it.items[j - 1]])
    ELSE IF it.items[j].k <= key THEN [res |-> "some", item |-> it.items[j]]
    ELSE branch_seek(it, key, j + 1)

\* A load for write that leaves the old page number in the branch entry.
patch_nothing(p, item, new_page_num) == p

\* *val = write_page_num on the value of a branch entry (writer.rs:173).
patch_value(p, item, new_page_num) ==
  WriteCells(p, item.off + item.kl, LeBytes(new_page_num, item.vl))

\* The loop of BTreeWrite::entry from page h of layout kind on.
RECURSIVE descend(_, _, _, _, _)
descend(m, key, h, kind, depth) ==
  IF kind = "L"
    THEN Bind([e \in {PageMapMut_entry(PageOf(m, h.ptr), "L", key)} |->
           [m |-> IF e.kind = "err" THEN Fail(m, "DataCorruption") ELSE m, e |-> e, h |-> h]])
    ELSE Bind([sel \in {branch_seek(iter_rev(PageOf(m, h.ptr), "B"), key, 1)} |->
           IF sel.res # "some"
             THEN [m |-> Fail(m, "DataCorruption"), e |-> [kind |-> "err"], h |-> h]
           ELSE
             Bind([t \in {try_load(m, sel.item.v)} |->
               IF t.m.err # "ok" THEN [m |-> t.m, e |-> [kind |-> "err"], h |-> h]
               ELSE
                 Bind([m1 \in {IF t.new # -1
                        THEN Store(t.m, h.ptr, patch_value(PageOf(t.m, h.ptr), sel.item, t.new))
                        ELSE t.m} |->
                   IF depth + 1 > MaxLevels
                     THEN [m |-> Fail([m1 EXCEPT !.branches = Append(@, h)], "DataCorruption"),
                           e |-> [kind |-> "err"], h |-> h]
                   ELSE descend([m1 EXCEPT !.branches = Append(@, h)], key,
                                [ptr |-> t.ptr, num |-> IF t.new # -1 THEN t.new ELSE sel.item.v],
                                t.kind, depth + 1)])])])

\* BTreeWrite::entry: e is the page-level entry in the leaf h.
BTreeWrite_entry(m, key) ==
  Bind([m0 \in {[m EXCEPT !.branches = truncate1(@)]} |->
    Bind([page \in {IF m0.leaf # NoHandle THEN [m |-> [m0 EXCEPT !.leaf = NoHandle], kind |-> "L",
                                     ptr |-> m0.leaf.ptr, num |-> m0.leaf.num]
         ELSE IF Len(m0.branches) > 0
           THEN [m |-> [m0 EXCEPT !.branches = <<>>], kind |-> "B",
                 ptr |-> m0.branches[1].ptr, num |-> m0.branches[1].num]
         ELSE Bind([t \in {try_load(m0, m0.root)} |->
                [m |-> t.m, kind |-> t.kind, ptr |-> t.ptr, num |-> m0.root]])} |->
      IF page.m.err # "ok" THEN [m |-> page.m, e |-> [kind |-> "err"], h |-> NoHandle]
      ELSE descend(page.m, key, [ptr |-> page.ptr, num |-> page.num], page.kind, 0)])])

\* A write of a whole page image through ptr; oob tells that the
\* operation that produced it also wrote outside the page.
StoreP(m, ptr, p, oob) ==
  LET m1 == Store(m, ptr, p) IN IF oob THEN [m1 EXCEPT !.ub = TRUE] ELSE m1

push(m, h) == [m EXCEPT !.branches = Append(@, h)]

pop(m) == [m EXCEPT !.branches = SubSeq(@, 1, Len(@) - 1)]

\* iter().next() on a page: the first pair, None, or an error.
first_pair(p, ly) ==
  Bind([it \in {iter(p, ly)} |->
    IF Len(it.items) >= 1 THEN [res |-> "some", k |-> it.items[1].k, v |-> it.items[1].v]
    ELSE IF it.err THEN [res |-> "err"] ELSE [res |-> "none"]])

\* The second call of next() on the same iterator.
second_pair(p, ly) ==
  Bind([it \in {iter(p, ly)} |->
    IF Len(it.items) >= 2 THEN [res |-> "some", k |-> it.items[2].k, v |-> it.items[2].v]
    ELSE IF it.err THEN [res |-> "err"] ELSE [res |-> "none"]])

\* entry(key) must be Vacant, then insert(value): the tail of
\* branch_insert and the filling of a new root branch.
insert_new(m, ptr, ly, key, value) ==
  IF Unbounded(key) \/ Unbounded(value) THEN Fail(m, "Bound")
  ELSE
    Bind([pg \in {PageOf(m, ptr)} |->
    Bind([e \in {PageMapMut_entry(pg, ly, key)} |->
      IF e.kind # "vacant" THEN Fail(m, "DataCorruption")
      ELSE Bind([r \in {VacantEntry_insert(pg, ly, e, key, value)} |->
             IF r.res # "ok" THEN Fail(m, r.res) ELSE StoreP(m, ptr, r.page, r.oob)])])])

RECURSIVE branch_insert(_, _, _, _)

\* promote_root as a tree that grows by a new root page would do it: the
\* branch over the page that split and the new page is a fresh page, which
\* becomes the root.
promote_root_fresh(m, old, pt, ly, k2, nb) ==
  Bind([m1 \in {allocate(m)} |->
    IF m1.err # "ok" THEN [m |-> m1, h |-> NoHandle]
    ELSE
      Bind([m3 \in {[Store(m1, m.page_num, PageMapMut_new(PageOf(m1, m.page_num), pt))
                       EXCEPT !.root = m.page_num]} |->
      Bind([k \in {first_pair(PageOf(m1, old.ptr), ly)} |->
        IF k.res # "some" THEN [m |-> Fail(m3, "DataCorruption"), h |-> NoHandle]
        ELSE
          Bind([m4 \in {insert_new(m3, m.page_num, "B", k.k, old.num)} |->
            IF m4.err # "ok" THEN [m |-> m4, h |-> NoHandle]
            ELSE
              Bind([b \in {branch_insert(m4, [ptr |-> m.page_num, num |-> m.page_num], k2, nb)} |->
                IF b.m.err # "ok" THEN [m |-> b.m, h |-> NoHandle]
                ELSE [m |-> push(b.m, b.h), h |-> old]])])])])])

\* The root page splits (writer.rs:221-259, 298-329): its content moves to
\* a fresh page, the root page becomes a branch of page type pt over the
\* copy and the new page.  old is the handle of the page that split, nb
\* the number of the new higher page and k2 its first key.
promote_root(m, old, pt, ly, k2, nb) ==
  Bind([m1 \in {allocate(m)} |->
    IF m1.err # "ok" THEN [m |-> m1, h |-> NoHandle]
    ELSE
      Bind([m2 \in {Store(m1, m.page_num, copy_to(PageOf(m1, old.ptr), ly, PageOf(m1, m.page_num)))} |->
      Bind([m3 \in {Store(m2, old.ptr, PageMapMut_new(PageOf(m2, old.ptr), pt))} |->
      Bind([k \in {first_pair(PageOf(m2, m.page_num), ly)} |->
        IF k.res # "some" THEN [m |-> Fail(m3, "DataCorruption"), h |-> NoHandle]
        ELSE
          Bind([m4 \in {insert_new(m3, old.ptr, "B", k.k, m.page_num)} |->
            IF m4.err # "ok" THEN [m |-> m4, h |-> NoHandle]
            ELSE
              Bind([b \in {branch_insert(m4, old, k2, nb)} |->
                IF b.m.err # "ok" THEN [m |-> b.m, h |-> NoHandle]
                ELSE [m |-> push(b.m, b.h),
                      h |-> [ptr |-> m.page_num, num |-> m.page_num]]])])])])])])

\* A non-root page split: the new page goes into the parent on the stack.
insert_in_parent(m, old, k2, nb) ==
  Bind([b \in {branch_insert(pop(m), m.branches[Len(m.branches)], k2, nb)} |->
    IF b.m.err # "ok" THEN [m |-> b.m, h |-> NoHandle]
    ELSE [m |-> push(b.m, b.h), h |-> old]])

\* BTreeWrite::branch_insert: h is the branch page that now holds key.
branch_insert(m, branch, key, val) ==
  IF Unbounded(key) \/ Unbounded(val) THEN [m |-> Fail(m, "Bound"), h |-> NoHandle]
  ELSE
    Bind([bp \in {PageOf(m, branch.ptr)} |->
    Bind([e \in {PageMapMut_entry(bp, "B", key)} |->
      IF e.kind # "vacant" THEN [m |-> Fail(m, "DataCorruption"), h |-> NoHandle]
      ELSE
        Bind([r \in {VacantEntry_insert(bp, "B", e, key, val)} |->
          IF r.res = "ok" THEN [m |-> StoreP(m, branch.ptr, r.page, r.oob), h |-> branch]
          ELSE IF r.res # "OutofSpace" THEN [m |-> Fail(m, r.res), h |-> NoHandle]
          ELSE
            Bind([m1 \in {allocate(m)} |->
              IF m1.err # "ok" THEN [m |-> m1, h |-> NoHandle]
              ELSE
                Bind([sp \in {split_to(bp, "B", PageOf(m1, m.page_num))} |->
                Bind([m2 \in {Store(Store(m1, branch.ptr, sp.src), m.page_num, sp.dst)} |->
                Bind([k2 \in {first_pair(sp.dst, "B")} |->
                  IF sp.err # "ok" THEN [m |-> Fail(m2, sp.err), h |-> NoHandle]
                  ELSE IF k2.res = "none" THEN [m |-> Fail(m2, "InvalidState"), h |-> NoHandle]
                  ELSE IF k2.res = "err" THEN [m |-> Fail(m2, "DataCorruption"), h |-> NoHandle]
                  ELSE
                    Bind([up \in {IF Len(m2.branches) = 0
                           THEN promote_root(m2, branch, page_type(sp.src), "B", k2.k, m.page_num)
                           ELSE insert_in_parent(m2, branch, k2.k, m.page_num)} |->
                      IF up.m.err # "ok" THEN [m |-> up.m, h |-> NoHandle]
                      ELSE
                        Bind([target \in {IF key < k2.k THEN up.h
                             ELSE [ptr |-> m.page_num, num |-> m.page_num]} |->
                          [m |-> insert_new(up.m, target.ptr, "B", key, val),
                           h |-> target]])])])])])])])])])

\* BTreeWrite::split_leaf: h is the leaf that key belongs to.
split_leaf(m, leaf, key) ==
  Bind([m1 \in {allocate(m)} |->
    IF m1.err # "ok" THEN [m |-> m1, h |-> NoHandle]
    ELSE
      Bind([sp \in {split_to(PageOf(m1, leaf.ptr), "L", PageOf(m1, m.page_num))} |->
      Bind([m2 \in {Store(Store(m1, leaf.ptr, sp.src), m.page_num, sp.dst)} |->
      Bind([k2 \in {first_pair(sp.dst, "L")} |->
        IF sp.err # "ok" THEN [m |-> Fail(m2, sp.err), h |-> NoHandle]
        ELSE IF k2.res = "none" THEN [m |-> Fail(m2, "InvalidState"), h |-> NoHandle]
        ELSE IF k2.res = "err" THEN [m |-> Fail(m2, "DataCorruption"), h |-> NoHandle]
        ELSE
          Bind([up \in {IF Len(m2.branches) = 0
                 THEN promote_root(m2, leaf, page_type(sp.src) - (page_type(sp.src) % 2),
                                   "L", k2.k, m.page_num)
                 ELSE insert_in_parent(m2, leaf, k2.k, m.page_num)} |->
            IF up.m.err # "ok" THEN [m |-> up.m, h |-> NoHandle]
            ELSE [m |-> up.m,
                  h |-> IF key < k2.k THEN up.h
                        ELSE [ptr |-> m.page_num, num |-> m.page_num]]])])])])])

\* BTreeWrite::replace_branch_first.
RECURSIVE replace_branch_first(_, _, _)
replace_branch_first(m, old_key, new_key) ==
  IF Len(m.branches) = 0 THEN m
  ELSE IF Unbounded(old_key) \/ Unbounded(new_key) THEN Fail(m, "Bound")
  ELSE
    Bind([branch \in {m.branches[Len(m.branches)]} |->
    Bind([m0 \in {pop(m)} |->
    Bind([bp \in {PageOf(m0, branch.ptr)} |->
    Bind([e \in {PageMapMut_entry(bp, "B", old_key)} |->
      IF e.kind = "err" THEN Fail(m0, "DataCorruption")
      ELSE IF e.kind = "vacant" THEN m
      ELSE
        Bind([b \in {branch_insert(Store(m0, branch.ptr, OccupiedEntry_delete(bp, "B", e)),
                           branch, new_key,
                           read_value("B", ReadCells(bp, e.off + e.kl, e.vl)))} |->
          IF b.m.err # "ok" THEN b.m
          ELSE
            Bind([m2 \in {IF first(e) THEN replace_branch_first(b.m, old_key, new_key) ELSE b.m} |->
              IF m2.err # "ok" THEN m2 ELSE push(m2, b.h)])])])])])])

\* reduce_depth without the deallocate of the child page it copied into the
\* root (writer.rs:404-413).
reduce_depth_keep(m) ==
  Bind([m0 \in {[m EXCEPT !.branches = truncate1(@)]} |->
    IF m0.leaf # NoHandle THEN m0
    ELSE
      Bind([top \in {IF Len(m0.branches) > 0
             THEN [m |-> pop(m0), kind |-> "B", ptr |-> m0.branches[1].ptr]
             ELSE Bind([t \in {try_load(m0, m0.root)} |->
                    [m |-> t.m, kind |-> t.kind, ptr |-> t.ptr]])} |->
        IF top.m.err # "ok" THEN top.m
        ELSE IF top.kind = "L" THEN top.m
        ELSE
          Bind([it \in {iter(PageOf(top.m, top.ptr), "B")} |->
            IF Len(it.items) = 0 THEN Fail(top.m, "DataCorruption")
            ELSE IF Len(it.items) >= 2 \/ it.err THEN top.m
            ELSE
              Bind([sub \in {try_load(top.m, it.items[1].v)} |->
                IF sub.m.err # "ok" THEN sub.m
                ELSE
                  Bind([m2 \in {Store(sub.m, top.ptr,
                                     copy_to(PageOf(sub.m, sub.ptr), sub.kind,
                                             PageOf(sub.m, top.ptr)))} |->
                    IF sub.kind = "B" THEN push(m2, [ptr |-> top.ptr, num |-> m.root])
                    ELSE [m2 EXCEPT !.leaf = [ptr |-> top.ptr, num |-> m.root]]])])])])])

\* BTreeWrite::reduce_depth.
reduce_depth(m) ==
  Bind([m0 \in {[m EXCEPT !.branches = truncate1(@)]} |->
    IF m0.leaf # NoHandle THEN m0
    ELSE
      Bind([top \in {IF Len(m0.branches) > 0
             THEN [m |-> pop(m0), kind |-> "B", ptr |-> m0.branches[1].ptr]
             ELSE Bind([t \in {try_load(m0, m0.root)} |->
                    [m |-> t.m, kind |-> t.kind, ptr |-> t.ptr]])} |->
        IF top.m.err # "ok" THEN top.m
        ELSE IF top.kind = "L" THEN top.m
        ELSE
          Bind([it \in {iter(PageOf(top.m, top.ptr), "B")} |->
            IF Len(it.items) = 0 THEN Fail(top.m, "DataCorruption")
            ELSE IF Len(it.items) >= 2 \/ it.err THEN top.m
            ELSE
              Bind([sub \in {try_load(top.m, it.items[1].v)} |->
                IF sub.m.err # "ok" THEN sub.m
                ELSE
                  Bind([m2 \in {deallocate(Store(sub.m, top.ptr,
                                        copy_to(PageOf(sub.m, sub.ptr), sub.kind,
                                                PageOf(sub.m, top.ptr))),
                                  it.items[1].v)} |->
                    IF sub.kind = "B" THEN push(m2, [ptr |-> top.ptr, num |-> m.root])
                    ELSE [m2 EXCEPT !.leaf = [ptr |-> top.ptr, num |-> m.root]]])])])])])

NoItem == [idx |-> -1]

\* The pair of neighbouring children BTreeWrite::balance picks
\* (writer.rs:431-446): entries are met from the largest key down.
RECURSIVE balance_pair(_, _, _, _, _)
balance_pair(it, key, j, v0, v1) ==
  IF j > Len(it.items)
    THEN [err |-> it.err, v0 |-> v0, v1 |-> v1]
    ELSE IF it.items[j].k <= key /\ v0 # NoItem
      THEN [err |-> FALSE, v0 |-> it.items[j], v1 |-> v0]
      ELSE balance_pair(it, key, j + 1, it.items[j], v0)

\* The threshold above which a page is a candidate for rebalancing.
NeedsBalance(free) == free > (PAGE_4K * 3) \div 4

\* BTreeWrite::balance; res is the returned flag.
RECURSIVE BTreeWrite_balance(_, _)
BTreeWrite_balance(m, key) ==
  IF Len(m.branches) = 0 THEN [m |-> m, res |-> TRUE]
  ELSE
    Bind([branch \in {m.branches[Len(m.branches)]} |->
    Bind([m0 \in {pop(m)} |->
    Bind([pr \in {balance_pair(iter_rev(PageOf(m0, branch.ptr), "B"), key, 1, NoItem, NoItem)} |->
      IF pr.err THEN [m |-> Fail(m0, "DataCorruption"), res |-> FALSE]
      ELSE IF pr.v0 = NoItem \/ pr.v1 = NoItem THEN [m |-> m0, res |-> TRUE]
      ELSE
        Bind([page0 \in {try_load(m0, pr.v0.v)} |->
          IF page0.m.err # "ok" THEN [m |-> page0.m, res |-> FALSE]
          ELSE
            Bind([page1 \in {try_load(page0.m, pr.v1.v)} |->
              IF page1.m.err # "ok" THEN [m |-> page1.m, res |-> FALSE]
              ELSE IF page0.kind # page1.kind
                THEN [m |-> Fail(page1.m, "DataCorruption"), res |-> FALSE]
              ELSE
                Bind([m1 \in {IF page0.new # -1
                       THEN Store(page1.m, branch.ptr,
                                  patch_value(PageOf(page1.m, branch.ptr), pr.v0, page0.new))
                       ELSE page1.m} |->
                Bind([m2 \in {IF page1.new # -1
                       THEN Store(m1, branch.ptr,
                                  patch_value(PageOf(m1, branch.ptr), pr.v1, page1.new))
                       ELSE m1} |->
                Bind([r \in {PageMapMut_balance(PageOf(m2, page0.ptr), PageOf(m2, page1.ptr), page0.kind)} |->
                  IF r.err # "ok" THEN [m |-> Fail(m2, r.err), res |-> FALSE]
                  ELSE
                    Bind([m3 \in {StoreP(Store(m2, page0.ptr, r.lower), page1.ptr, r.higher, r.oob)} |->
                    Bind([new_key \in {first_pair(r.higher, page0.kind)} |->
                      IF Unbounded(pr.v1.k)
                         \/ (r.kind = "Balanced" /\ new_key.res = "some" /\ Unbounded(new_key.k))
                        THEN [m |-> Fail(m2, "Bound"), res |-> FALSE]
                      ELSE IF r.kind = "Balanced" /\ new_key.res # "some"
                        THEN [m |-> Fail(m3, "DataCorruption"), res |-> FALSE]
                      ELSE
                        Bind([old \in {get_pair(IF r.kind = "Merged" THEN r.lower
                                      ELSE IF pr.v1.k < new_key.k THEN r.lower ELSE r.higher,
                                      page0.kind, pr.v1.k)} |->
                          IF old.res # "some"
                            THEN [m |-> Fail(m3, "DataCorruption"), res |-> FALSE]
                          ELSE
                            Bind([bp \in {PageOf(m3, branch.ptr)} |->
                            Bind([e \in {PageMapMut_entry(bp, "B", old.k)} |->
                              IF e.kind # "occupied"
                                THEN [m |-> Fail(m3, "DataCorruption"), res |-> FALSE]
                              ELSE
                                Bind([deleted \in {OccupiedEntry_delete(bp, "B", e)} |->
                                Bind([m4 \in {Store(m3, branch.ptr, deleted)} |->
                                Bind([freed_page \in {IF page1.new # -1 THEN page1.new ELSE pr.v1.v} |->
                                  IF r.kind = "Balanced"
                                    THEN [m |-> branch_insert(
                                                  m4, branch, new_key.k,
                                                  read_value("B", ReadCells(bp, e.off + e.kl,
                                                                            e.vl))).m,
                                          res |-> FALSE]
                                  ELSE IF NeedsBalance(free_space(deleted, "B"))
                                    THEN BTreeWrite_balance(deallocate(m4, freed_page), key)
                                  ELSE [m |-> deallocate(m4, freed_page),
                                        res |-> TRUE]])])])])])])])])])])])])])])])])

\* A fix_first that leaves the separators of the branches as they are.
fix_first_leaf_only(m, h, key) ==
  Bind([one \in {first_pair(PageOf(m, h.ptr), "L")} |->
    IF one.res = "none" THEN Fail(m, "InvalidState")
    ELSE IF one.res = "err" THEN Fail(m, "DataCorruption")
    ELSE m])

\* After an insert that made key the first pair of leaf h
\* (writer.rs:738-751): the parents' separator moves from the old first
\* key to key, and the entry is located again.
fix_first(m, h, key) ==
  Bind([one \in {first_pair(PageOf(m, h.ptr), "L")} |->
  Bind([old_pair \in {second_pair(PageOf(m, h.ptr), "L")} |->
    IF one.res = "none" THEN Fail(m, "InvalidState")
    ELSE IF one.res = "err" \/ old_pair.res = "err" THEN Fail(m, "DataCorruption")
    ELSE
      Bind([m1 \in {IF old_pair.res = "some" THEN replace_branch_first(m, old_pair.k, key) ELSE m} |->
        IF m1.err # "ok" THEN m1
        ELSE
          Bind([e \in {PageMapMut_entry(PageOf(m1, h.ptr), "L", key)} |->
            IF e.kind = "err" THEN Fail(m1, "DataCorruption")
            ELSE IF e.kind # "occupied" THEN Fail(m1, "InvalidState")
            ELSE m1])])])])

\* The page-level insert the tree-level insert starts with: insert, or
\* insert_vectored when vectored.
leaf_insert(p, e, key, value, vectored) ==
  IF vectored THEN VacantEntry_insert_vectored(p, "L", e, key, value)
  ELSE VacantEntry_insert(p, "L", e, key, value)

\* VacantEntry::insert and insert_vectored of the tree, on the Vacant
\* entry en = [e, h] that BTreeWrite::entry returned for key.
BTreeVacant_insert(m, en, key, value, vectored) ==
  Bind([r \in {leaf_insert(PageOf(m, en.h.ptr), en.e, key, value, vectored)} |->
    IF r.res # "ok" /\ r.res # "OutofSpace" THEN Fail(m, r.res)
    ELSE
      \* at: the leaf the pair went into, the entry it took and the tree
      \* after the page-level insert
      Bind([at \in {IF r.res = "ok"
             THEN [m |-> StoreP(m, en.h.ptr, r.page, r.oob), h |-> en.h, e |-> en.e]
             ELSE Bind([sl \in {split_leaf(m, en.h, key)} |->
                    IF sl.m.err # "ok" THEN [m |-> sl.m, h |-> sl.h, e |-> en.e]
                    ELSE
                      Bind([e2 \in {PageMapMut_entry(PageOf(sl.m, sl.h.ptr), "L", key)} |->
                        IF e2.kind = "err"
                          THEN [m |-> Fail(sl.m, "DataCorruption"), h |-> sl.h, e |-> e2]
                        ELSE IF e2.kind # "vacant"
                          THEN [m |-> Fail(sl.m, "InvalidState"), h |-> sl.h, e |-> e2]
                        ELSE
                          Bind([r2 \in {leaf_insert(PageOf(sl.m, sl.h.ptr), e2, key, value, vectored)} |->
                            IF r2.res # "ok"
                              THEN [m |-> Fail(sl.m, r2.res), h |-> sl.h, e |-> e2]
                            ELSE [m |-> StoreP(sl.m, sl.h.ptr, r2.page, r2.oob),
                                  h |-> sl.h, e |-> e2]])])])} |->
        IF at.m.err # "ok" THEN at.m
        ELSE IF first(at.e) THEN fix_first(at.m, at.h, key)
        ELSE at.m])])

\* OccupiedEntry::replace and replace_vectored of the tree.
BTreeOccupied_replace(m, en, key, value) ==
  Bind([r \in {OccupiedEntry_replace(PageOf(m, en.h.ptr), "L", en.e, value)} |->
    IF r.res = "ok" THEN StoreP(m, en.h.ptr, r.page, r.oob)
    ELSE IF r.res # "OutofSpace" THEN Fail(m, r.res)
    ELSE
      Bind([sl \in {split_leaf(m, en.h, key)} |->
        IF sl.m.err # "ok" THEN sl.m
        ELSE
          Bind([e2 \in {PageMapMut_entry(PageOf(sl.m, sl.h.ptr), "L", key)} |->
            IF e2.kind = "err" THEN Fail(sl.m, "DataCorruption")
            ELSE IF e2.kind # "occupied" THEN Fail(sl.m, "InvalidState")
            ELSE
              Bind([r2 \in {OccupiedEntry_replace(PageOf(sl.m, sl.h.ptr), "L", e2, value)} |->
                IF r2.res # "ok" THEN Fail(sl.m, r2.res)
                ELSE StoreP(sl.m, sl.h.ptr, r2.page, r2.oob)])])])])

\* OccupiedEntry::delete of the tree, up to the rebalancing
\* (writer.rs:628-640): the pair is deleted from the leaf and, when it
\* was the first and the leaf has a new first key, the separators move.
delete_pair(m, en, key) ==
  Bind([page \in {OccupiedEntry_delete(PageOf(m, en.h.ptr), "L", en.e)} |->
  Bind([m1 \in {Store(m, en.h.ptr, page)} |->
  Bind([new \in {first_pair(page, "L")} |->
    IF first(en.e) /\ new.res = "err" THEN Fail(m1, "DataCorruption")
    ELSE IF first(en.e) /\ new.res = "some" THEN replace_branch_first(m1, key, new.k)
    ELSE m1])])])

\* OccupiedEntry::delete of the tree.
BTreeOccupied_delete(m, en, key) ==
  Bind([m2 \in {delete_pair(m, en, key)} |->
    IF m2.err # "ok" THEN m2
    ELSE IF ~NeedsBalance(free_space(PageOf(m2, en.h.ptr), "L")) THEN m2
    ELSE
      Bind([b \in {BTreeWrite_balance(m2, key)} |->
        IF b.m.err # "ok" THEN b.m
        ELSE IF b.res THEN reduce_depth(b.m)
        ELSE b.m])])

\* ---------------------------------------------------------------------
\* The reader: BTreeRead::load and BTreeRead::get over the committed pages.
\* ---------------------------------------------------------------------
\* The child a branch selects in BTreeRead::get (reader.rs:192-199).
RECURSIVE read_seek(_, _, _)
read_seek(it, key, j) ==
  IF j > Len(it.items) THEN (IF it.err THEN [res |-> "err"] ELSE [res |-> "none"])
  ELSE IF it.items[j].k <= key THEN [res |-> "some", item |-> it.items[j]]
  ELSE read_seek(it, key, j + 1)

\* ReadPage::try_load succeeds on page number n.
ReadPage_ok(mem, n) == n \in DOMAIN mem /\ from_page_ok(mem[n], LayoutOf(mem[n]))

\* The loop of BTreeRead::get, at most MaxLevels pages deep.
RECURSIVE get_from(_, _, _, _)
get_from(mem, page, key, depth) ==
  IF depth >= MaxLevels THEN [res |-> "err"]
  ELSE IF LayoutOf(page) = "B"
    THEN Bind([sel \in {read_seek(iter_rev(page, "B"), key, 1)} |->
           IF sel.res # "some" THEN [res |-> sel.res]
           ELSE IF ~ReadPage_ok(mem, sel.item.v) THEN [res |-> "err"]
           ELSE get_from(mem, mem[sel.item.v], key, depth + 1)])
  ELSE Bind([g \in {get_pair(page, "L", key)} |->
         IF g.res = "some" THEN [res |-> "some", v |-> g.v] ELSE [res |-> g.res]])

\* reader.tree() followed by get(key) on a reader whose root is root.
BTreeRead_get(mem, root, key) ==
  IF ~ReadPage_ok(mem, root) THEN [res |-> "err"] ELSE get_from(mem, mem[root], key, 0)

\* ---------------------------------------------------------------------
\* Iterators.  A PageIter is the page it reads with the entries i..j-1
\* of the info array and the bytes front..back-1 of the key-value array
\* still to come (RevSizedArray and KeyValArray).
\* ---------------------------------------------------------------------
PageMap_iter(p, ly) ==
  [p |-> p, ly |-> ly, i |-> 0, j |-> upper_len(p), front |-> 0, back |-> lower_len(p)]

\* PageIter::next_internal: res is "some" with the pair (k, v), "none" or
\* "err"; it is the iterator after the call.
PageIter_next(it) ==
  IF it.i >= it.j
    THEN [res |-> IF it.back # it.front THEN "err" ELSE "none", it |-> it]
    ELSE Bind([info \in {InfoAt(it.p, it.ly, it.i)} |->
         Bind([kl \in {key_len(it.ly, info)} |->
         Bind([vl \in {value_len(it.ly, info)} |->
           IF it.front + kl + vl > it.back
             THEN [res |-> "err", it |-> [it EXCEPT !.i = @ + 1]]
             ELSE [res |-> "some",
                   k |-> read_key(it.ly, ReadCells(it.p, it.front, kl)),
                   v |-> read_value(it.ly, ReadCells(it.p, it.front + kl, vl)),
                   it |-> [it EXCEPT !.i = @ + 1, !.front = @ + kl + vl]]])])])

\* PageIter::next_back_internal.
PageIter_next_back(it) ==
  IF it.i >= it.j
    THEN [res |-> IF it.back # it.front THEN "err" ELSE "none", it |-> it]
    ELSE Bind([info \in {InfoAt(it.p, it.ly, it.j - 1)} |->
         Bind([kl \in {key_len(it.ly, info)} |->
         Bind([vl \in {value_len(it.ly, info)} |->
           IF it.back - vl - kl < it.front
             THEN [res |-> "err", it |-> [it EXCEPT !.j = @ - 1]]
             ELSE [res |-> "some",
                   k |-> read_key(it.ly, ReadCells(it.p, it.back - vl - kl, kl)),
                   v |-> read_value(it.ly, ReadCells(it.p, it.back - vl, vl)),
                   it |-> [it EXCEPT !.j = @ - 1, !.back = @ - vl - kl]]])])])

\* A bound of a range: Unbounded, Included(b) or Excluded(b).
Unbounded_ == [kind |-> "Unbounded", b |-> 0]

Included(b) == [kind |-> "Included", b |-> b]

Excluded(b) == [kind |-> "Excluded", b |-> b]

\* The tests that end the two loops of trim_leaf (reader.rs:27-38, 47-58)
\* and the second loop of trim_branch (reader.rs:103-114) on key k.
LeafFrontStops(bound, k) ==
  \/ bound.kind = "Unbounded"
  \/ bound.kind = "Excluded" /\ k > bound.b
  \/ bound.kind = "Included" /\ k >= bound.b

LeafBackStops(bound, k) ==
  \/ bound.kind = "Unbounded"
  \/ bound.kind = "Excluded" /\ k < bound.b
  \/ bound.kind = "Included" /\ k >= bound.b

BranchBackStops(bound, k) ==
  \/ bound.kind = "Unbounded"
  \/ bound.kind = "Excluded" /\ k < bound.b
  \/ bound.kind = "Included" /\ k <= bound.b

\* One loop of trim_leaf or the second loop of trim_branch: peek walks the
\* iterator with next(), and the iterator follows it past every key the
\* test does not stop at.  which names the test.
RECURSIVE trim_loop(_, _, _)
trim_loop(it, bound, which) ==
  Bind([r \in {PageIter_next(it)} |->
    IF r.res = "none" THEN [err |-> FALSE, it |-> it]
    ELSE IF r.res = "err" THEN [err |-> TRUE, it |-> it]
    ELSE IF (which = "leaf_front" /\ LeafFrontStops(bound, r.k))
            \/ (which = "leaf_back" /\ LeafBackStops(bound, r.k))
            \/ (which = "branch_back" /\ BranchBackStops(bound, r.k))
      THEN [err |-> FALSE, it |-> it]
    ELSE trim_loop(r.it, bound, which)])

\* trim_leaf.
trim_leaf(it, range) ==
  Bind([f \in {trim_loop(it, range.start, "leaf_front")} |->
    IF f.err THEN f ELSE trim_loop(f.it, range.end, "leaf_back")])

\* The first loop of trim_branch (reader.rs:78-97): peek2 runs one key
\* ahead of peek, and the iterator takes the place of peek after every
\* key greater than the bound.
RECURSIVE trim_branch_front(_, _, _, _)
trim_branch_front(it, peek, peek2, bound) ==
  Bind([r \in {PageIter_next(peek2)} |->
    IF r.res = "none" THEN [err |-> FALSE, it |-> it]
    ELSE IF r.res = "err" THEN [err |-> TRUE, it |-> it]
    ELSE IF bound.kind = "Unbounded" THEN [err |-> FALSE, it |-> it]
    ELSE IF r.k = bound.b THEN [err |-> FALSE, it |-> peek]
    ELSE IF r.k < bound.b THEN [err |-> FALSE, it |-> it]
    ELSE trim_branch_front(peek, r.it, r.it, bound)])

\* trim_branch.
trim_branch(it, range) ==
  Bind([f \in {trim_branch_front(it, it, it, range.start)} |->
    IF f.err THEN f ELSE trim_loop(f.it, range.end, "branch_back")])

\* The states of a BTreeIter.
IterEmpty == [kind |-> "Empty"]

IterLeaf(l) == [kind |-> "Leaf", l |-> l]

IterFull(left, right, left_leaf, right_leaf) ==
  [kind |-> "Full", left |-> left, right |-> right,
   left_leaf |-> left_leaf, right_leaf |-> right_leaf]

IterErr == [kind |-> "Err"]

Front(s) == s[1]

Back(s) == s[Len(s)]

PopFront(s) == SubSeq(s, 2, Len(s))

PopBack(s) == SubSeq(s, 1, Len(s) - 1)

SetFront(s, x) == [s EXCEPT ![1] = x]

SetBack(s, x) == [s EXCEPT ![Len(s)] = x]

\* The descent of BTreeRead::range down the left-hand side
\* (reader.rs:256-291).  The result is the queue left and the leaf, or
\* "Empty" when every iterator ran out, or an error.
RECURSIVE range_left(_, _, _)
range_left(mem, left, range) ==
  IF Len(left) > MaxLevels THEN [res |-> "err"]
  ELSE IF Len(left) = 0 THEN [res |-> "Empty"]
  ELSE Bind([r \in {PageIter_next(Back(left))} |->
    IF r.res = "none" THEN range_left(mem, PopBack(left), range)
    ELSE IF r.res = "err" THEN [res |-> "err"]
    ELSE IF ~ReadPage_ok(mem, r.v) THEN [res |-> "err"]
    ELSE IF LayoutOf(mem[r.v]) = "B"
      THEN Bind([tb \in {trim_branch(PageMap_iter(mem[r.v], "B"), range)} |->
             IF tb.err THEN [res |-> "err"]
             ELSE range_left(mem, Append(SetBack(left, r.it), tb.it), range)])
    ELSE Bind([tl \in {trim_leaf(PageMap_iter(mem[r.v], "L"), range)} |->
           IF tl.err THEN [res |-> "err"]
           ELSE [res |-> "leaf", left |-> SetBack(left, r.it), leaf |-> tl.it]])])

\* The descent down the right-hand side (reader.rs:295-347).
RECURSIVE range_right(_, _, _, _, _)
range_right(mem, left, right, left_leaf, range) ==
  IF Len(right) > MaxLevels THEN IterErr
  ELSE IF Len(right) = 0 /\ Len(left) = 0 THEN IterLeaf(left_leaf)
  ELSE Bind([r \in {PageIter_next_back(IF Len(right) > 0 THEN Back(right) ELSE Front(left))} |->
    IF r.res = "none"
      THEN (IF Len(right) > 0 THEN range_right(mem, left, PopBack(right), left_leaf, range)
            ELSE range_right(mem, PopFront(left), right, left_leaf, range))
    ELSE IF r.res = "err" THEN IterErr
    ELSE IF ~ReadPage_ok(mem, r.v) THEN IterErr
    ELSE
      Bind([q \in {IF Len(right) > 0 THEN [left |-> left, right |-> SetBack(right, r.it)]
                  ELSE [left |-> SetFront(left, r.it), right |-> right]} |->
        IF LayoutOf(mem[r.v]) = "B"
          THEN Bind([tb \in {trim_branch(PageMap_iter(mem[r.v], "B"), range)} |->
                 IF tb.err THEN IterErr
                 ELSE range_right(mem, q.left, Append(q.right, tb.it), left_leaf, range)])
        ELSE Bind([tl \in {trim_leaf(PageMap_iter(mem[r.v], "L"), range)} |->
               IF tl.err THEN IterErr
               ELSE IterFull(q.left, q.right, left_leaf, tl.it)])])])

\* BTreeRead::range on the tree whose root is page root of mem.
BTreeRead_range(mem, root, range) ==
  IF ~ReadPage_ok(mem, root) THEN IterErr
  ELSE IF LayoutOf(mem[root]) = "L"
    THEN Bind([tl \in {trim_leaf(PageMap_iter(mem[root], "L"), range)} |->
           IF tl.err THEN IterErr ELSE IterLeaf(tl.it)])
  ELSE Bind([tb \in {trim_branch(PageMap_iter(mem[root], "B"), range)} |->
         IF tb.err THEN IterErr
         ELSE Bind([l \in {range_left(mem, <<tb.it>>, range)} |->
                IF l.res = "err" THEN IterErr
                ELSE IF l.res = "Empty" THEN IterEmpty
                ELSE range_right(mem, l.left, <<>>, l.leaf, range)])])

\* The loop of BTreeIter::next_internal once the left leaf has run out
\* (reader.rs:448-479).  The result is the pair returned (res) and the
\* state of the iterator afterwards.
RECURSIVE next_page_within(_, _, _)
next_page_within(mem, st, fuel) ==
  IF fuel = 0 THEN [res |-> "running", st |-> st]
  ELSE IF Len(st.left) = 0 /\ Len(st.right) = 0
    THEN Bind([r \in {PageIter_next(st.right_leaf)} |->
           IF r.res = "err" THEN [res |-> "err", st |-> st]
           ELSE [res |-> r.res, pair |-> r, st |-> IterLeaf(r.it)]])
  ELSE Bind([r \in {PageIter_next(IF Len(st.left) > 0 THEN Back(st.left) ELSE Front(st.right))} |->
    IF r.res = "none"
      THEN next_page_within(mem, IF Len(st.left) > 0 THEN [st EXCEPT !.left = PopBack(@)]
                          ELSE [st EXCEPT !.right = PopFront(@)], fuel)
    ELSE IF r.res = "err" THEN [res |-> "err", st |-> st]
    ELSE IF ~ReadPage_ok(mem, r.v) THEN [res |-> "err", st |-> st]
    ELSE
      Bind([q \in {IF Len(st.left) > 0 THEN [st EXCEPT !.left = SetBack(@, r.it)]
                  ELSE [st EXCEPT !.right = SetFront(@, r.it)]} |->
        IF LayoutOf(mem[r.v]) = "B"
          THEN next_page_within(mem, [q EXCEPT !.left = Append(@, PageMap_iter(mem[r.v], "B"))], fuel - 1)
        ELSE Bind([n \in {PageIter_next(PageMap_iter(mem[r.v], "L"))} |->
               [res |-> n.res, pair |-> n, st |-> [q EXCEPT !.left_leaf = n.it]]])])])

next_page(mem, st) == next_page_within(mem, st, MaxLoads)

\* BTreeIter::next_internal.
next_internal(mem, st) ==
  IF st.kind = "Empty" THEN [res |-> "none", st |-> st]
  ELSE IF st.kind = "Leaf"
    THEN Bind([r \in {PageIter_next(st.l)} |->
           [res |-> r.res, pair |-> r, st |-> IterLeaf(r.it)]])
  ELSE Bind([r \in {PageIter_next(st.left_leaf)} |->
         IF r.res = "err" THEN [res |-> "err", st |-> st]
         ELSE IF r.res = "some" THEN [res |-> "some", pair |-> r, st |-> [st EXCEPT !.left_leaf = r.it]]
         ELSE next_page(mem, [st EXCEPT !.left_leaf = r.it])])

\* The loop of BTreeIter::next_back_internal (reader.rs:494-525).
RECURSIVE next_back_page_within(_, _, _)
next_back_page_within(mem, st, fuel) ==
  IF fuel = 0 THEN [res |-> "running", st |-> st]
  ELSE IF Len(st.left) = 0 /\ Len(st.right) = 0
    THEN Bind([r \in {PageIter_next_back(st.left_leaf)} |->
           IF r.res = "err" THEN [res |-> "err", st |-> st]
           ELSE [res |-> r.res, pair |-> r, st |-> IterLeaf(r.it)]])
  ELSE Bind([r \in {PageIter_next_back(IF Len(st.right) > 0 THEN Back(st.right) ELSE Front(st.left))} |->
    IF r.res = "none"
      THEN next_back_page_within(mem, IF Len(st.right) > 0 THEN [st EXCEPT !.right = PopBack(@)]
                               ELSE [st EXCEPT !.left = PopFront(@)], fuel)
    ELSE IF r.res = "err" THEN [res |-> "err", st |-> st]
    ELSE IF ~ReadPage_ok(mem, r.v) THEN [res |-> "err", st |-> st]
    ELSE
      Bind([q \in {IF Len(st.right) > 0 THEN [st EXCEPT !.right = SetBack(@, r.it)]
                  ELSE [st EXCEPT !.left = SetFront(@, r.it)]} |->
        IF LayoutOf(mem[r.v]) = "B"
          THEN next_back_page_within(mem, [q EXCEPT !.right = Append(@, PageMap_iter(mem[r.v], "B"))], fuel - 1)
        ELSE Bind([n \in {PageIter_next_back(PageMap_iter(mem[r.v], "L"))} |->
               [res |-> n.res, pair |-> n, st |-> [q EXCEPT !.right_leaf = n.it]]])])])

next_back_page(mem, st) == next_back_page_within(mem, st, MaxLoads)

\* A next_back_internal that ends the iteration when the right leaf has
\* run out, without loading the page before it.
next_back_internal_one_leaf(mem, st) ==
  IF st.kind = "Empty" THEN [res |-> "none", st |-> st]
  ELSE Bind([r \in {PageIter_next_back(IF st.kind = "Leaf" THEN st.l ELSE st.right_leaf)} |->
         [res |-> r.res, pair |-> r,
          st |-> IF st.kind = "Leaf" THEN IterLeaf(r.it) ELSE [st EXCEPT !.right_leaf = r.it]]])

\* BTreeIter::next_back_internal.
next_back_internal(mem, st) ==
  IF st.kind = "Empty" THEN [res |-> "none", st |-> st]
  ELSE IF st.kind = "Leaf"
    THEN Bind([r \in {PageIter_next_back(st.l)} |->
           [res |-> r.res, pair |-> r, st |-> IterLeaf(r.it)]])
  ELSE Bind([r \in {PageIter_next_back(st.right_leaf)} |->
         IF r.res = "err" THEN [res |-> "err", st |-> st]
         ELSE IF r.res = "some" THEN [res |-> "some", pair |-> r, st |-> [st EXCEPT !.right_leaf = r.it]]
         ELSE next_back_page(mem, [st EXCEPT !.right_leaf = r.it])])

\* The pairs that calling only next() (back = FALSE) or only next_back()
\* yields until None; err tells that the calls ended in an error.  No
\* more than n calls are made.
RECURSIVE drain(_, _, _, _, _)
drain(mem, st, back, n, acc) ==
  IF st.kind = "Err" THEN [items |-> acc, err |-> TRUE]
  ELSE IF n = 0 THEN [items |-> acc, err |-> TRUE]
  ELSE Bind([r \in {IF back THEN next_back_internal(mem, st) ELSE next_internal(mem, st)} |->
    IF r.res = "none" THEN [items |-> acc, err |-> FALSE]
    ELSE IF r.res \in {"err", "running"} THEN [items |-> acc, err |-> TRUE]
    ELSE drain(mem, r.st, back, n - 1, Append(acc, <<r.pair.k, r.pair.v>>))])

\* ---------------------------------------------------------------------
\* The system: one database (BasicDbInner), its writer (BasicDbWrite with
\* its cell), the tree the writer has open, and reader handles.
\* ---------------------------------------------------------------------
AllKeys == 1..MaxKey

Value(len) == [i \in 1..len |-> len]

Values == {Value(1), Value(MAX_VAR_SIZE)}

Readers == 1..MaxReaders

\* Keys and values of the runs of the whole database.
DbKeys == 1..MaxDbKey

DbValues == {Value(MAX_VAR_SIZE)}

NoValue == <<-1>>

VARIABLES inner, cell, writer, tree, readers, result, ub, ref, seen, steps

\* The two pages of the runs of the page map alone, and the last call made
\* on them.
VARIABLES pages, last

vars == <<junk, inner, cell, writer, tree, readers, result, ub, ref, seen, steps, pages, last>>

\* What a reader with root root observes for every key.
View(mem, root) == [k \in AllKeys |-> BTreeRead_get(mem, root, k)]

\* The view of a handle that is not in use.
NoView == [k \in AllKeys |-> [res |-> "none"]]

NoTree == [open |-> FALSE, root |-> -1, branches |-> <<>>, leaf |-> NoHandle]

EmptyRef == [k \in AllKeys |-> NoValue]

\* No page is under test in the runs of the tree and of the database.
NoPages == [lower |-> <<>>, higher |-> <<>>]

NoCall == [op |-> "none"]

\* new_db: page 0 is an empty leaf of type 1, one reader is handed out.
Init ==
  /\ junk \in JunkBytes
  /\ inner = [root |-> 0, memory |-> (0 :> PageMapMut_new(FreshPage, 1)),
              checkouts |-> <<[commit |-> 0, count |-> 1]>>, commit |-> 0]
  /\ cell = [page_num |-> 1, dirty |-> <<>>, to_drop |-> <<>>, root |-> 0]
  /\ writer = [commit |-> 0, starting_page_num |-> 1, starting_root |-> 0]
  /\ tree = NoTree
  /\ readers = [r \in Readers |-> IF r = 1 THEN [live |-> TRUE, root |-> 0, commit |-> 0]
                                  ELSE [live |-> FALSE, root |-> -1, commit |-> -1]]
  /\ result = [op |-> "new_db", err |-> "ok"]
  /\ ub = FALSE
  /\ ref = EmptyRef
  /\ steps = DbOps
  /\ seen = [r \in Readers |-> IF r = 1 THEN View(inner.memory, inner.root) ELSE NoView]
  /\ pages = NoPages
  /\ last = NoCall

\* The pages the writer's own reads go to: a dirty page shadows the
\* committed one.
WriterMem ==
  [n \in DOMAIN cell.dirty \cup DOMAIN inner.memory |->
     IF n \in DOMAIN cell.dirty THEN cell.dirty[n] ELSE inner.memory[n]]

\* The machine record of the current state.
Mach ==
  [memory |-> inner.memory, dirty |-> cell.dirty, page_num |-> cell.page_num,
   to_drop |-> cell.to_drop, commit |-> writer.commit, root |-> tree.root,
   branches |-> tree.branches, leaf |-> tree.leaf, err |-> "ok", ub |-> FALSE]

\* The state after a tree operation that ended in machine m.
Landed(m, op) ==
  /\ m.err # "Bound"
  /\ inner' = [inner EXCEPT !.memory = m.memory]
  /\ cell' = [cell EXCEPT !.dirty = m.dirty, !.page_num = m.page_num, !.to_drop = m.to_drop]
  /\ tree' = [open |-> TRUE, root |-> m.root, branches |-> m.branches, leaf |-> m.leaf]
  /\ ub' = m.ub
  /\ result' = [op |-> op, err |-> m.err]
  /\ steps > 0
  /\ steps' = steps - 1
  /\ UNCHANGED <<junk, pages, last, writer, readers, seen>>

\* BasicDbWrite::tree.
OpenTree ==
  /\ ~tree.open /\ ~ub
  /\ \E r \in {BTreeWrite_load(Mach, cell.root)} :
       /\ r.m.err # "Bound"
       /\ inner' = [inner EXCEPT !.memory = r.m.memory]
       /\ cell' = [cell EXCEPT !.dirty = r.m.dirty, !.page_num = r.m.page_num,
                               !.to_drop = r.m.to_drop,
                               !.root = IF r.m.err = "ok" /\ r.new # -1 THEN r.new ELSE @]
       /\ tree' = IF r.m.err = "ok"
                    THEN [open |-> TRUE, root |-> r.m.root, branches |-> r.m.branches,
                          leaf |-> r.m.leaf]
                    ELSE NoTree
       /\ ub' = r.m.ub
       /\ result' = [op |-> "tree", err |-> r.m.err]
  /\ UNCHANGED <<junk, pages, last, steps, writer, readers, ref, seen>>

\* The BTreeWrite is dropped.
CloseTree ==
  /\ tree.open /\ ~ub
  /\ tree' = NoTree
  /\ result' = [op |-> "drop", err |-> "ok"]
  /\ UNCHANGED <<junk, pages, last, steps, inner, cell, writer, readers, ub, ref, seen>>

\* tree.entry(key), then insert(value) or insert_vectored on a Vacant
\* entry; on an Occupied entry nothing is done.
TreeInsert(key, value, vectored) ==
  /\ tree.open /\ ~ub
  /\ \E en \in {BTreeWrite_entry(Mach, key)} :
       Landed(IF en.m.err = "ok" /\ en.e.kind = "vacant"
                THEN BTreeVacant_insert(en.m, en, key, value, vectored) ELSE en.m,
              IF vectored THEN "insert_vectored" ELSE "insert")

\* tree.entry(key), then replace(value) on an Occupied entry.
TreeReplace(key, value) ==
  /\ tree.open /\ ~ub
  /\ \E en \in {BTreeWrite_entry(Mach, key)} :
       Landed(IF en.m.err = "ok" /\ en.e.kind = "occupied"
                THEN BTreeOccupied_replace(en.m, en, key, value) ELSE en.m,
              "replace")

\* tree.entry(key), then delete() on an Occupied entry.
TreeDelete(key) ==
  /\ tree.open /\ ~ub
  /\ \E en \in {BTreeWrite_entry(Mach, key)} :
       Landed(IF en.m.err = "ok" /\ en.e.kind = "occupied"
                THEN BTreeOccupied_delete(en.m, en, key) ELSE en.m,
              "delete")

Insert(key, value, vectored) == TreeInsert(key, value, vectored) /\ UNCHANGED ref

Replace(key, value) == TreeReplace(key, value) /\ UNCHANGED ref

Delete(key) == TreeDelete(key) /\ UNCHANGED ref

\* Number of commits the writer performs at most.
CommitsDone == writer.commit >= MaxCommits

\* A commit that carries out every deferred free, readers or not.
KeepNothing(tag, oldest_co) == FALSE

\* BasicDbWrite::commit keeps a deferred free whose tag is not below the
\* oldest checkout (btree/mod.rs:395).
KeepForReaders(tag, oldest_co) == tag >= oldest_co

\* The deferred frees commit carries out: entries are taken from the front
\* until one has to be kept.  Result: the pages removed and what remains.
RECURSIVE ditch(_, _, _)
ditch(to_drop, oldest_co, removed) ==
  IF Len(to_drop) = 0 \/ KeepForReaders(to_drop[1].tag, oldest_co)
    THEN [to_drop |-> to_drop, removed |-> removed]
    ELSE ditch(Tail(to_drop), oldest_co,
               removed \cup {to_drop[1].pages[i] : i \in 1..Len(to_drop[1].pages)})

\* u64::MAX stands for "no checkout"; commit numbers stay below it.
NoCheckout == MaxCommits + 2

\* BasicDbWrite::commit (the tree, which borrows the writer, is gone).
Commit ==
  /\ ~ub /\ ~CommitsDone
  /\ LET merged == [n \in DOMAIN cell.dirty \cup DOMAIN inner.memory |->
                      IF n \in DOMAIN cell.dirty THEN cell.dirty[n] ELSE inner.memory[n]]
         oldest_co == IF Len(inner.checkouts) > 0 THEN inner.checkouts[1].commit ELSE NoCheckout
         d == ditch(cell.to_drop, oldest_co, {})
         memory == [n \in DOMAIN merged \ d.removed |-> merged[n]]
     IN /\ inner' = [inner EXCEPT !.memory = memory, !.root = cell.root, !.commit = @ + 1]
        /\ cell' = [cell EXCEPT !.dirty = <<>>, !.to_drop = d.to_drop]
        /\ writer' = [commit |-> writer.commit + 1, starting_page_num |-> cell.page_num,
                      starting_root |-> cell.root]
  /\ tree' = NoTree
  /\ result' = [op |-> "commit", err |-> "ok", built |-> View(WriterMem, cell.root)]
  /\ UNCHANGED <<junk, pages, last, steps, readers, ub, ref, seen>>

\* The pages the open transaction has queued for freeing.
queued ==
  IF Len(cell.to_drop) > 0 /\ cell.to_drop[Len(cell.to_drop)].tag = writer.commit + 1
    THEN cell.to_drop[Len(cell.to_drop)].pages ELSE <<>>

\* A reset that leaves the transaction's queued frees in place.
Reset_keeps_frees ==
  /\ ~ub
  /\ cell' = [page_num |-> writer.starting_page_num, dirty |-> <<>>,
              to_drop |-> cell.to_drop, root |-> writer.starting_root]
  /\ tree' = NoTree
  /\ result' = [op |-> "reset", err |-> "ok", discarded |-> Cardinality(DOMAIN cell.dirty),
                cancelled |-> Len(queued)]
  /\ UNCHANGED <<junk, pages, last, steps, inner, writer, readers, ub, ref, seen>>

\* BasicDbWrite::reset.  The result records how many dirty pages and how
\* many queued frees the transaction had.
Reset ==
  /\ ~ub
  /\ LET n == Len(cell.to_drop)
         to_drop == IF n > 0 /\ cell.to_drop[n].tag = writer.commit + 1
                      THEN SubSeq(cell.to_drop, 1, n - 1) ELSE cell.to_drop
     IN cell' = [page_num |-> writer.starting_page_num, dirty |-> <<>>,
                 to_drop |-> to_drop, root |-> writer.starting_root]
  /\ tree' = NoTree
  /\ result' = [op |-> "reset", err |-> "ok", discarded |-> Cardinality(DOMAIN cell.dirty),
                cancelled |-> Len(queued)]
  /\ UNCHANGED <<junk, pages, last, steps, inner, writer, readers, ub, ref, seen>>

\* The checkout bookkeeping of BasicDbRead::clone at the current commit.
checkout(checkouts, commit) ==
  IF \E i \in 1..Len(checkouts) : checkouts[i].commit = commit
    THEN [i \in 1..Len(checkouts) |->
            IF checkouts[i].commit = commit
              THEN [checkouts[i] EXCEPT !.count = @ + 1] ELSE checkouts[i]]
    ELSE Append(checkouts, [commit |-> commit, count |-> 1])

RECURSIVE remove_zero(_)
remove_zero(checkouts) ==
  IF Len(checkouts) = 0 THEN <<>>
  ELSE IF checkouts[1].count = 0 THEN remove_zero(Tail(checkouts))
  ELSE <<checkouts[1]>> \o remove_zero(Tail(checkouts))

\* The checkout bookkeeping of BasicDbRead::drop.
checkin(checkouts, commit) ==
  remove_zero([i \in 1..Len(checkouts) |->
                 IF checkouts[i].commit = commit
                   THEN [checkouts[i] EXCEPT !.count = @ - 1] ELSE checkouts[i]])

\* BasicDbRead::clone: reader r is cloned; the clone is kept in the first
\* handle not in use, q.
ReaderClone(r, q) ==
  /\ ~ub /\ ~tree.open /\ readers[r].live /\ ~readers[q].live
  /\ \A p \in Readers : p < q => readers[p].live
  /\ inner' = [inner EXCEPT !.checkouts = checkout(@, inner.commit)]
  /\ readers' = [readers EXCEPT ![q] = [live |-> TRUE, root |-> inner.root, commit |-> inner.commit]]
  /\ seen' = [seen EXCEPT ![q] = View(inner.memory, inner.root)]
  /\ UNCHANGED <<junk, pages, last, steps, cell, writer, tree, result, ub, ref>>

\* BasicDbRead::reload: clone, then drop the old handle.
ReaderReload(r) ==
  /\ ~ub /\ ~tree.open /\ readers[r].live
  /\ inner' = [inner EXCEPT !.checkouts = checkin(checkout(@, inner.commit), readers[r].commit)]
  /\ readers' = [readers EXCEPT ![r] = [live |-> TRUE, root |-> inner.root, commit |-> inner.commit]]
  /\ seen' = [seen EXCEPT ![r] = View(inner.memory, inner.root)]
  /\ UNCHANGED <<junk, pages, last, steps, cell, writer, tree, result, ub, ref>>

\* Drop for BasicDbRead.
ReaderDrop(r) ==
  /\ ~ub /\ ~tree.open /\ readers[r].live
  /\ inner' = [inner EXCEPT !.checkouts = checkin(@, readers[r].commit)]
  /\ readers' = [readers EXCEPT ![r] = [live |-> FALSE, root |-> -1, commit |-> -1]]
  /\ seen' = [seen EXCEPT ![r] = NoView]
  /\ UNCHANGED <<junk, pages, last, steps, cell, writer, tree, result, ub, ref>>

Next ==
  \/ OpenTree
  \/ CloseTree
  \/ \E key \in DbKeys, value \in DbValues : Insert(key, value, FALSE)
  \/ \E key \in DbKeys, value \in DbValues : Insert(key, value, TRUE)
  \/ \E key \in DbKeys, value \in DbValues : Replace(key, value)
  \/ \E key \in DbKeys : Delete(key)
  \/ Commit
  \/ Reset
  \/ \E r \in Readers, q \in Readers : ReaderClone(r, q)
  \/ \E r \in Readers : ReaderReload(r)
  \/ \E r \in Readers : ReaderDrop(r)

Spec == Init /\ [][Next]_vars

\* ---------------------------------------------------------------------
\* The tree alone: one transaction of the writer on the new database,
\* with every key and value.
\* ---------------------------------------------------------------------
InitTree ==
  /\ junk \in JunkBytes
  /\ inner = [root |-> 0, memory |-> (0 :> PageMapMut_new(FreshPage, 1)),
              checkouts |-> <<[commit |-> 0, count |-> 1]>>, commit |-> 0]
  /\ cell = [page_num |-> 1, dirty |-> <<>>, to_drop |-> <<>>, root |-> 0]
  /\ writer = [commit |-> 0, starting_page_num |-> 1, starting_root |-> 0]
  /\ tree = NoTree
  /\ readers = [r \in Readers |-> IF r = 1 THEN [live |-> TRUE, root |-> 0, commit |-> 0]
                                  ELSE [live |-> FALSE, root |-> -1, commit |-> -1]]
  /\ result = [op |-> "new_db", err |-> "ok"]
  /\ ub = FALSE
  /\ ref = EmptyRef
  /\ steps = MaxOps
  /\ seen = [r \in Readers |-> IF r = 1 THEN View(inner.memory, inner.root) ELSE NoView]
  /\ pages = NoPages
  /\ last = NoCall

NextTree ==
  \/ OpenTree
  \/ \E key \in AllKeys, value \in Values : Insert(key, value, FALSE)
  \/ \E key \in AllKeys, value \in Values : Insert(key, value, TRUE)
  \/ \E key \in AllKeys, value \in Values : Replace(key, value)
  \/ \E key \in AllKeys : Delete(key)

SpecTree == InitTree /\ [][NextTree]_vars

\* ---------------------------------------------------------------------
\* The tree against a reference map: inserts on Vacant entries and deletes
\* on Occupied entries only, the map ref being driven by the same calls.
\* ---------------------------------------------------------------------
InitMap ==
  /\ junk \in JunkBytes
  /\ inner = [root |-> 0, memory |-> (0 :> PageMapMut_new(FreshPage, 1)),
              checkouts |-> <<[commit |-> 0, count |-> 1]>>, commit |-> 0]
  /\ cell = [page_num |-> 1, dirty |-> <<>>, to_drop |-> <<>>, root |-> 0]
  /\ writer = [commit |-> 0, starting_page_num |-> 1, starting_root |-> 0]
  /\ tree = NoTree
  /\ readers = [r \in Readers |-> IF r = 1 THEN [live |-> TRUE, root |-> 0, commit |-> 0]
                                  ELSE [live |-> FALSE, root |-> -1, commit |-> -1]]
  /\ result = [op |-> "new_db", err |-> "ok"]
  /\ ub = FALSE
  /\ ref = EmptyRef
  /\ steps = MapOps
  /\ seen = [r \in Readers |-> IF r = 1 THEN View(inner.memory, inner.root) ELSE NoView]
  /\ pages = NoPages
  /\ last = NoCall

MapInsert(key, value) ==
  /\ TreeInsert(key, value, FALSE)
  /\ ref' = IF result'.err = "ok" /\ BTreeWrite_entry(Mach, key).e.kind = "vacant"
              THEN [ref EXCEPT ![key] = value] ELSE ref

MapDelete(key) ==
  /\ TreeDelete(key)
  /\ ref' = IF result'.err = "ok" /\ BTreeWrite_entry(Mach, key).e.kind = "occupied"
              THEN [ref EXCEPT ![key] = NoValue] ELSE ref

NextMap ==
  \/ OpenTree
  \/ \E key \in AllKeys, value \in Values : MapInsert(key, value)
  \/ \E key \in AllKeys : MapDelete(key)
  \/ Commit

SpecMap == InitMap /\ [][NextMap]_vars

\* ---------------------------------------------------------------------
\* The page map alone: two pages of one layout, built by inserts, and the
\* calls of PageMapMut on them.  pages.lower is the page the calls act on;
\* pages.higher is the destination of split_to and the higher page of
\* balance.  last records the call: its result, the pages and the entry
\* as they were before it.
\* ---------------------------------------------------------------------
MaxPageOps == 2

LowKeys == 1..MaxKey

HighKeys == (MaxKey + 1)..(MaxKey + 2)

\* Values the pages are built from: short and longest leaf values, a page
\* number of two bytes for a branch.
BaseValues(ly) == IF ly = "L" THEN {Value(1), Value(MAX_VAR_SIZE)} ELSE {300}

\* A page that cannot be built.
NoPage == <<>>

\* The page holding the pairs (k, f[k]) for the keys k of ks, inserted in
\* key order into p.
RECURSIVE Built(_, _, _, _)
Built(p, ly, ks, f) ==
  IF ks = {} \/ p = NoPage THEN p
  ELSE Bind([a \in {[page |-> p, k |-> CHOOSE x \in ks : \A y \in ks : x <= y]} |->
         Bind([e \in {PageMapMut_entry(a.page, ly, a.k)} |->
         Bind([r \in {VacantEntry_insert(a.page, ly, e, a.k, f[a.k])} |->
           Built(IF r.res = "ok" /\ ~r.oob THEN r.page ELSE NoPage, ly, ks \ {a.k}, f)])])])

BuiltPages(pt, ly, keys) ==
  Bind([empty \in {PageMapMut_new(FreshPage, pt)} |->
    UNION {{Built(empty, ly, ks, f) : f \in [ks -> BaseValues(ly)]} : ks \in SUBSET keys}
      \ {NoPage}])

\* A lower and a higher page of page type pt.
PagePairs(pt, ly) ==
  {[lower |-> lo, higher |-> hi] : lo \in BuiltPages(pt, ly, LowKeys),
                                   hi \in BuiltPages(pt, ly, HighKeys)}

InitPage ==
  /\ junk \in JunkBytes
  /\ inner = [root |-> 0, memory |-> (0 :> PageMapMut_new(FreshPage, 1)),
              checkouts |-> <<[commit |-> 0, count |-> 1]>>, commit |-> 0]
  /\ cell = [page_num |-> 1, dirty |-> <<>>, to_drop |-> <<>>, root |-> 0]
  /\ writer = [commit |-> 0, starting_page_num |-> 1, starting_root |-> 0]
  /\ tree = NoTree
  /\ readers = [r \in Readers |-> [live |-> FALSE, root |-> -1, commit |-> -1]]
  /\ result = [op |-> "new_db", err |-> "ok"]
  /\ ub = FALSE
  /\ ref = EmptyRef
  /\ steps = MaxPageOps
  /\ seen = [r \in Readers |-> NoView]
  /\ pages \in PagePairs(0, "B") \cup PagePairs(1, "L")
  /\ last = NoCall

treevars == <<junk, inner, cell, writer, tree, readers, result, ub, ref, seen>>

PageLayout == LayoutOf(pages.lower)

\* Value lengths tried by an insert into p: short, longest, one too long,
\* the exact fit, one byte more than fits, and the length that brings p
\* and the higher page together to exactly one page's content.
InsertValues(p, ly) ==
  IF ly = "L"
    THEN {Value(n) : n \in ({1, MAX_VAR_SIZE, MAX_VAR_SIZE + 1}
                            \cup {free_space(p, ly) - 10, free_space(p, ly) - 9}
                            \cup {free_space(p, ly) - data_len(pages.higher, ly) - 10})
                           \cap (0..(MAX_VAR_SIZE + 1))}
    ELSE {1, 300}

\* Value lengths tried by a replace of entry e of p.
ReplaceValues(p, ly, e) ==
  IF ly = "L"
    THEN {Value(n) : n \in ({1, MAX_VAR_SIZE, MAX_VAR_SIZE + 1}
                            \cup {free_space(p, ly) + e.vl, free_space(p, ly) + e.vl + 1})
                           \cap (0..(MAX_VAR_SIZE + 1))}
    ELSE {1, 300}

\* The page run has calls left and no call wrote outside its page.
PageReady == steps > 0 /\ (last.op # "none" => ~last.oob)

Called(op, key, value, e, res, lower, higher, oob, kind) ==
  /\ last' = [op |-> op, key |-> key, value |-> value, e |-> e, res |-> res,
              before |-> pages, oob |-> oob, kind |-> kind]
  /\ pages' = [lower |-> lower, higher |-> higher]
  /\ steps' = steps - 1
  /\ UNCHANGED treevars

\* The pairs of p are well formed and its keys increase.
Sorted(p, ly) ==
  /\ ~iter(p, ly).err
  /\ \A i \in 1..(Len(Keys(p, ly)) - 1) : Keys(p, ly)[i] < Keys(p, ly)[i + 1]

\* PageMapMut::entry(key), then VacantEntry::insert or insert_vectored.
PageInsert(key, vectored) ==
  /\ PageReady
  /\ \E e \in {PageMapMut_entry(pages.lower, PageLayout, key)} :
       /\ e.kind = "vacant"
       /\ \E value \in InsertValues(pages.lower, PageLayout) :
            \E r \in {IF vectored
                        THEN VacantEntry_insert_vectored(pages.lower, PageLayout, e, key, value)
                        ELSE VacantEntry_insert(pages.lower, PageLayout, e, key, value)} :
              Called(IF vectored THEN "insert_vectored" ELSE "insert", key, value, e,
                     r.res, r.page, pages.higher, r.oob, "none")

\* PageMapMut::entry(key), then OccupiedEntry::replace (replace_vectored
\* makes the same calls with the value in pieces).
PageReplace(key) ==
  /\ PageReady
  /\ \E e \in {PageMapMut_entry(pages.lower, PageLayout, key)} :
       /\ e.kind = "occupied"
       /\ \E value \in ReplaceValues(pages.lower, PageLayout, e) :
            \E r \in {OccupiedEntry_replace(pages.lower, PageLayout, e, value)} :
              Called("replace", key, value, e, r.res, r.page, pages.higher, r.oob, "none")

\* PageMapMut::entry(key), then OccupiedEntry::delete.
PageDelete(key) ==
  /\ PageReady
  /\ \E e \in {PageMapMut_entry(pages.lower, PageLayout, key)} :
       /\ e.kind = "occupied"
       /\ Called("delete", key, NoValue, e, "ok",
                 OccupiedEntry_delete(pages.lower, PageLayout, e), pages.higher, FALSE, "none")

\* pages.lower.split_to(memory of pages.higher), called as the tree calls
\* it: on a well-formed page that holds two entries or more.
PageSplit ==
  /\ PageReady
  /\ Sorted(pages.lower, PageLayout) /\ from_page_ok(pages.lower, PageLayout)
  /\ Len(Keys(pages.lower, PageLayout)) >= 2
  /\ \E sp \in {split_to(pages.lower, PageLayout, pages.higher)} :
       Called("split_to", 0, NoValue, NoItem, sp.err,
              IF sp.err = "ok" THEN sp.src ELSE pages.lower, sp.dst, FALSE, "none")

\* pages.lower.balance(pages.higher), called as BTreeWrite::balance calls
\* it: on two well-formed pages, every key of the higher one above every
\* key of the lower one.
PageBalance ==
  /\ PageReady
  /\ Sorted(pages.lower, PageLayout) /\ Sorted(pages.higher, PageLayout)
  /\ \A i \in 1..Len(Keys(pages.lower, PageLayout)) :
       \A j \in 1..Len(Keys(pages.higher, PageLayout)) :
         Keys(pages.lower, PageLayout)[i] < Keys(pages.higher, PageLayout)[j]
  /\ \E b \in {PageMapMut_balance(pages.lower, pages.higher, PageLayout)} :
       Called("balance", 0, NoValue, NoItem, b.err, b.lower, b.higher, b.oob, b.kind)

NextPage ==
  \/ \E key \in LowKeys : PageInsert(key, FALSE)
  \/ \E key \in LowKeys : PageInsert(key, TRUE)
  \/ \E key \in LowKeys : PageReplace(key)
  \/ \E key \in LowKeys : PageDelete(key)
  \/ PageSplit
  \/ PageBalance

SpecPage == InitPage /\ [][NextPage]_vars

\* ---------------------------------------------------------------------
\* The tree writer on a committed tree of two leaves under a root branch:
\* page 0 is the root, page 1 the leaf of the low keys and page 2 the leaf
\* of the high keys; the root stores the first key of each leaf.  No leaf
\* is a candidate for rebalancing.
\* ---------------------------------------------------------------------
TwoOps == 1

\* No iteration is followed for more calls than this.
MaxItems == 12

TwoKeys == LowKeys \cup HighKeys

\* The leaves a tree of two leaves is made of.
Leaves(keys) ==
  {p \in BuiltPages(1, "L", keys) :
     upper_len(p) > 0 /\ ~NeedsBalance(free_space(p, "L"))}

\* The root branch over the leaves lo (page 1) and hi (page 2).
RootOver(lo, hi) ==
  Built(PageMapMut_new(FreshPage, 0), "B", {Keys(lo, "L")[1], Keys(hi, "L")[1]},
        (Keys(lo, "L")[1] :> 1) @@ (Keys(hi, "L")[1] :> 2))

\* The root branch over the branches 3 and 4 of a tree of depth 3.
RootOverBranches(lo, hi) ==
  Built(PageMapMut_new(FreshPage, 0), "B", {Keys(lo, "L")[1], Keys(hi, "L")[1]},
        (Keys(lo, "L")[1] :> 3) @@ (Keys(hi, "L")[1] :> 4))

TwoLeafTrees ==
  {(0 :> RootOver(lo, hi)) @@ (1 :> lo) @@ (2 :> hi) :
     lo \in Leaves(LowKeys), hi \in Leaves(HighKeys)}

\* The branch whose only child is page n, under the first key of leaf p.
BranchOver(p, n) ==
  Built(PageMapMut_new(FreshPage, 0), "B", {Keys(p, "L")[1]}, (Keys(p, "L")[1] :> n))

\* Trees of depth 3: the root (page 0) over the branches 3 and 4, branch 3
\* over the leaf of the low keys and branch 4 over the leaf of the first
\* high key.
DeepTrees ==
  {(0 :> RootOverBranches(lo, hi)) @@ (1 :> lo) @@ (2 :> hi)
     @@ (3 :> BranchOver(lo, 1)) @@ (4 :> BranchOver(hi, 2)) :
     lo \in Leaves(LowKeys), hi \in Leaves({MaxKey + 1})}

InitTwo ==
  /\ junk \in JunkBytes
  /\ \E memory \in TwoLeafTrees \cup DeepTrees :
       /\ inner = [root |-> 0, memory |-> memory,
                   checkouts |-> <<[commit |-> 0, count |-> 1]>>, commit |-> 0]
       /\ cell = [page_num |-> Cardinality(DOMAIN memory), dirty |-> <<>>,
                  to_drop |-> <<>>, root |-> 0]
       /\ writer = [commit |-> 0, starting_page_num |-> Cardinality(DOMAIN memory),
                    starting_root |-> 0]
  /\ tree = NoTree
  /\ readers = [r \in Readers |-> IF r = 1 THEN [live |-> TRUE, root |-> 0, commit |-> 0]
                                  ELSE [live |-> FALSE, root |-> -1, commit |-> -1]]
  /\ result = [op |-> "new_db", err |-> "ok"]
  /\ ub = FALSE
  /\ ref = EmptyRef
  /\ steps = TwoOps
  /\ seen = [r \in Readers |-> IF r = 1 THEN View(inner.memory, inner.root) ELSE NoView]
  /\ pages = NoPages
  /\ last = NoCall

NextTwo ==
  \/ OpenTree
  \/ \E key \in TwoKeys, value \in Values : Insert(key, value, FALSE)
  \/ \E key \in TwoKeys, value \in Values : Insert(key, value, TRUE)
  \/ \E key \in TwoKeys, value \in Values : Replace(key, value)
  \/ \E key \in TwoKeys : Delete(key)

SpecTwo == InitTwo /\ [][NextTwo]_vars

\* ---------------------------------------------------------------------
\* The reader's range on committed trees of one, two and three leaves: a
\* root leaf over the low keys; the trees of two leaves; a root branch
\* over a leaf of the first low key, a leaf of the high keys and a leaf
\* of the keys after them.  One range is opened and run to its end from
\* the front, and once more from the back.
\* ---------------------------------------------------------------------
FarKeys == (MaxKey + 3)..(MaxKey + 4)

RangeKeys == 0..(MaxKey + 5)

OneLeafTrees == {(0 :> p) : p \in BuiltPages(1, "L", LowKeys)}

\* The root branch over three leaves (pages 1, 2 and 3).
RootOver3(lo, mid, hi) ==
  Built(PageMapMut_new(FreshPage, 0), "B",
        {Keys(lo, "L")[1], Keys(mid, "L")[1], Keys(hi, "L")[1]},
        (Keys(lo, "L")[1] :> 1) @@ (Keys(mid, "L")[1] :> 2) @@ (Keys(hi, "L")[1] :> 3))

ThreeLeafTrees ==
  {(0 :> RootOver3(lo, mid, hi)) @@ (1 :> lo) @@ (2 :> mid) @@ (3 :> hi) :
     lo \in Leaves({1}), mid \in Leaves(HighKeys), hi \in Leaves(FarKeys)}

RangeBounds ==
  {Unbounded_} \cup {Included(b) : b \in RangeKeys} \cup {Excluded(b) : b \in RangeKeys}

\* The ranges asked for: the start is not above the end.
Ranges ==
  {[start |-> s, end |-> e] : s \in RangeBounds, e \in RangeBounds} \ 
    {r \in [start : RangeBounds, end : RangeBounds] :
       r.start.kind # "Unbounded" /\ r.end.kind # "Unbounded" /\ r.start.b > r.end.b}

InitRange ==
  /\ junk \in JunkBytes
  /\ \E memory \in OneLeafTrees \cup TwoLeafTrees \cup ThreeLeafTrees :
       inner = [root |-> 0, memory |-> memory,
                checkouts |-> <<[commit |-> 0, count |-> 1]>>, commit |-> 0]
  /\ cell = [page_num |-> 4, dirty |-> <<>>, to_drop |-> <<>>, root |-> 0]
  /\ writer = [commit |-> 0, starting_page_num |-> 4, starting_root |-> 0]
  /\ tree = NoTree
  /\ readers = [r \in Readers |-> IF r = 1 THEN [live |-> TRUE, root |-> 0, commit |-> 0]
                                  ELSE [live |-> FALSE, root |-> -1, commit |-> -1]]
  /\ result = [op |-> "new_db", err |-> "ok"]
  /\ ub = FALSE
  /\ ref = EmptyRef
  /\ steps = 1
  /\ seen = [r \in Readers |-> NoView]
  /\ pages = NoPages
  /\ last = NoCall

\* Reader 1 opens range(r) on its root and calls next() until None, and
\* opens it again and calls next_back() until None.
ReadRange(r) ==
  /\ steps > 0
  /\ readers[1].live
  /\ steps' = steps - 1
  /\ last' = [op |-> "range", range |-> r,
              fwd |-> drain(inner.memory, BTreeRead_range(inner.memory, readers[1].root, r),
                            FALSE, MaxItems, <<>>),
              back |-> drain(inner.memory, BTreeRead_range(inner.memory, readers[1].root, r),
                             TRUE, MaxItems, <<>>)]
  /\ UNCHANGED <<treevars, pages>>

NextRange == \E r \in Ranges : ReadRange(r)

SpecRange == InitRange /\ [][NextRange]_vars

\* ---------------------------------------------------------------------
\* Properties.
\* ---------------------------------------------------------------------
\* What get returns for key k when the reference map holds ref[k].
Expected(v) == IF v = NoValue THEN [res |-> "none"] ELSE [res |-> "some", v |-> v]

\* C1: from the empty tree, after any sequence of inserts on Vacant
\* entries and deletes on Occupied entries, a reader opened on the
\* committed tree gets, for every key, Some(v) exactly when the reference
\* map driven by the same calls maps the key to v, and None otherwise.
C1_GetMatchesReference ==
  result.op = "commit" => \A k \in AllKeys : BTreeRead_get(inner.memory, inner.root, k) = Expected(ref[k])

\* The (separator, child) entries of branch page n of mem.
Entries(mem, n) == iter(mem[n], "B").items

\* The page numbers reachable from page n, going down at most d levels.
RECURSIVE Reach(_, _, _)
Reach(mem, n, d) ==
  IF n \notin DOMAIN mem THEN {}
  ELSE IF d = 0 \/ LayoutOf(mem[n]) = "L" THEN {n}
  ELSE {n} \cup UNION {Reach(mem, Entries(mem, n)[i].v, d - 1) : i \in 1..Len(Entries(mem, n))}

\* The numbers of branch pages passed on the paths from page n down to
\* the leaves (a child that is missing ends its path where it is met).
RECURSIVE Depths(_, _, _)
Depths(mem, n, d) ==
  IF n \notin DOMAIN mem \/ d = 0 THEN {0}
  ELSE IF LayoutOf(mem[n]) = "L" THEN {0}
  ELSE {x + 1 : x \in UNION {Depths(mem, Entries(mem, n)[i].v, d - 1) :
                               i \in 1..Len(Entries(mem, n))}}

\* A tree is at most this deep in the runs checked.
MaxDepth == 3

\* A write call of the tree has just returned Ok.
WriteOps == {"insert", "insert_vectored", "replace", "delete"}

Completed == tree.open /\ result.op \in WriteOps /\ result.err = "ok" /\ ~ub

\* A write call of the tree has just returned, with Ok or with an error.
Returned == tree.open /\ result.op \in WriteOps /\ ~ub

\* C4 (as stated): after every completed insert, replace or delete, the
\* separator a branch stores for a child equals the first key of that child.
C4_SeparatorIsFirstKey ==
  Completed =>
    \A mem \in {WriterMem} :
      \A n \in Reach(mem, tree.root, MaxDepth) :
        LayoutOf(mem[n]) = "B" =>
          \A i \in 1..Len(Entries(mem, n)) :
            \A c \in {Entries(mem, n)[i]} :
              /\ c.v \in DOMAIN mem
              /\ \A f \in {first_pair(mem[c.v], LayoutOf(mem[c.v]))} :
                   f.res = "some" /\ f.k = c.k

\* C5 (as stated): after every write call every path from the root to a
\* leaf passes through the same number of branch pages.
C5_EqualDepth ==
  Returned => \A mem \in {WriterMem} : Cardinality(Depths(mem, tree.root, MaxDepth)) <= 1

\* C8 (as stated): after every write call every branch page reachable from
\* the root holds at least one (separator, child) entry: no sequence of
\* inserts and deletes leaves an empty branch in the tree.
C8_NoEmptyBranch ==
  Returned =>
    \A mem \in {WriterMem} :
      \A n \in Reach(mem, tree.root, MaxDepth) :
        LayoutOf(mem[n]) = "B" => Len(Entries(mem, n)) >= 1

C3_WritesStayInDirtyPages ==
  [][inner'.commit = inner.commit => inner'.memory = inner.memory /\ ~ub']_vars

\* A call of the page map has been made.
PageCalled == last.op # "none"

\* C6 (as stated): after any sequence of entry/insert/replace/delete,
\* split_to and balance calls the keys of every page strictly increase in
\* iteration order.
C6_KeysStrictlyIncrease ==
  PageCalled /\ ~last.oob =>
    Sorted(pages.lower, PageLayout) /\ Sorted(pages.higher, PageLayout)

\* C7 (as stated): after any sequence of insert, insert_vectored, replace,
\* delete, split_to and balance calls every page has
\* lower_len + upper_len * sizeof(Info) <= CONTENT_SIZE.
C7_LengthsFit ==
  PageCalled /\ ~last.oob =>
    from_page_ok(pages.lower, PageLayout) /\ from_page_ok(pages.higher, PageLayout)




\* The pages p and q are well formed and hold between them, p first, the
\* (key, value) pairs s.
HoldPairs(p, q, ly, s) ==
  /\ from_page_ok(p, ly) /\ from_page_ok(q, ly)
  /\ ~iter(p, ly).err /\ ~iter(q, ly).err
  /\ Pairs(p, ly) \o Pairs(q, ly) = s

\* C9 (as stated): split_to on a page holding e1 < ... < en returns Ok,
\* leaves a prefix of the entries in the source page and places exactly the
\* remaining suffix, with equal keys and values, in the destination page.
C9_SplitKeepsPairs ==
  last.op = "split_to" =>
    /\ last.res = "ok"
    /\ HoldPairs(pages.lower, pages.higher, PageLayout, Pairs(last.before.lower, PageLayout))

\* C10 (as stated): balance(L, H), called with every key of H above every
\* key of L, returns pages whose pairs in key order are L's pairs followed
\* by H's pairs: Merged(L) holds all of them, Balanced{lower, higher} holds
\* a prefix in lower and the remaining suffix in higher.
C10_BalanceKeepsPairs ==
  last.op = "balance" /\ from_page_ok(last.before.lower, PageLayout)
                      /\ from_page_ok(last.before.higher, PageLayout) =>
    /\ last.res = "ok"
    /\ HoldPairs(pages.lower, IF last.kind = "Merged" THEN PageMapMut_new(FreshPage, page_type(pages.lower)) ELSE pages.higher,
                 PageLayout,
                 Pairs(last.before.lower, PageLayout) \o Pairs(last.before.higher, PageLayout))

\* The page-level insert of (key, value) into the leaf that tree.entry(key)
\* selects returns OutofSpace.
LeafOutofSpace(key, value, vectored) ==
  \E en \in {BTreeWrite_entry(Mach, key)} :
    /\ en.m.err = "ok" /\ en.e.kind = "vacant"
    /\ leaf_insert(PageOf(en.m, en.h.ptr), en.e, key, value, vectored).res = "OutofSpace"

\* C11 (as stated): no write call of the tree, for a key and a value within
\* MAX_VAR_SIZE, returns OutofSpace to the caller: a page-level OutofSpace
\* is resolved by a split and a retry, and the call returns Ok.
C11_SplitAndRetry ==
  [][\A key \in AllKeys, value \in Values, vectored \in BOOLEAN :
       LeafOutofSpace(key, value, vectored) /\ TreeInsert(key, value, vectored)
         => result'.err = "ok"]_vars

\* The bytes the last page-level insert or replace needed, and the free
\* space of the page it was called on.
Needed ==
  IF last.op = "replace"
    THEN determine_value_len(PageLayout, last.value) - last.e.vl
    ELSE determine_key_len(PageLayout, last.key) + determine_value_len(PageLayout, last.value)
           + InfoSize(PageLayout)

FreeBefore == free_space(last.before.lower, PageLayout)

\* An insert, insert_vectored or replace of a value that is not too large
\* has been called on a well-formed page.
SpaceChecked ==
  /\ last.op \in {"insert", "insert_vectored", "replace"}
  /\ ~TooLarge(PageLayout, last.value)
  /\ from_page_ok(last.before.lower, PageLayout)

\* C12 (as stated): a page-level insert, insert_vectored or replace
\* succeeds whenever the bytes it needs are at most the free space of the
\* page, the exact fit included, and returns OutofSpace only when the need
\* exceeds the free space.
C12_FitsThenOk ==
  SpaceChecked =>
    /\ Needed <= FreeBefore => last.res = "ok"
    /\ Needed > FreeBefore => last.res = "OutofSpace"


TwoLeaves ==
  /\ tree.open /\ tree.root \in DOMAIN WriterMem
  /\ LayoutOf(WriterMem[tree.root]) = "B"
  /\ Len(Entries(WriterMem, tree.root)) = 2
  /\ \A i \in 1..2 : \A c \in {Entries(WriterMem, tree.root)[i].v} :
       c \in DOMAIN WriterMem /\ LayoutOf(WriterMem[c]) = "L"

\* Child i of the root.
Child(i) == WriterMem[Entries(WriterMem, tree.root)[i].v]

\* Deleting key from a tree of two leaves leaves its leaf a candidate for
\* rebalancing, and the two leaves then fit one page.
DeleteMerges(key) ==
  /\ TwoLeaves
  /\ \E i \in 1..2 : \E e \in {PageMapMut_entry(Child(i), "L", key)} :
       /\ e.kind = "occupied"
       /\ \E d \in {OccupiedEntry_delete(Child(i), "L", e)} :
            /\ NeedsBalance(free_space(d, "L"))
            /\ CanMerge(data_len(d, "L"), data_len(Child(3 - i), "L"))

\* The pairs of s without the pair of key.
Without(s, key) == SelectSeq(s, LAMBDA kv : kv[1] # key)

\* Page number c is on the writer's list of pages to free.
Dropped(c) ==
  \E i \in 1..Len(cell.to_drop) :
    \E j \in 1..Len(cell.to_drop[i].pages) : cell.to_drop[i].pages[j] = c

\* C14: when a delete makes the only two children of the root branch
\* merge, on return the root page itself holds the merged entries, the
\* tree is one level lower and the former children are deallocated.
C14_RootCollapses ==
  [][\A key \in TwoKeys :
       DeleteMerges(key) /\ TreeDelete(key) =>
         /\ result'.err = "ok" /\ ~ub'
         /\ tree'.root = tree.root
         /\ LayoutOf(WriterMem'[tree.root]) = "L"
         /\ ~iter(WriterMem'[tree.root], "L").err
         /\ Pairs(WriterMem'[tree.root], "L")
              = Without(Pairs(Child(1), "L") \o Pairs(Child(2), "L"), key)
         /\ DOMAIN cell'.dirty = {tree.root}
         /\ \A i \in 1..2 : \A c \in {Entries(WriterMem, tree.root)[i].v} :
              c \in DOMAIN inner.memory => Dropped(c)']_vars

\* The pairs of the tree under page n of mem, leaf by leaf from the left.
RECURSIVE TreePairs(_, _, _), ChildPairs(_, _, _, _)
TreePairs(mem, n, d) ==
  IF d = 0 \/ n \notin DOMAIN mem THEN <<>>
  ELSE IF LayoutOf(mem[n]) = "L" THEN Pairs(mem[n], "L")
  ELSE ChildPairs(mem, Entries(mem, n), 1, d - 1)

ChildPairs(mem, es, i, d) ==
  IF i > Len(es) THEN <<>>
  ELSE TreePairs(mem, es[i].v, d) \o ChildPairs(mem, es, i + 1, d)

InRange(r, k) ==
  /\ r.start.kind = "Included" => k >= r.start.b
  /\ r.start.kind = "Excluded" => k > r.start.b
  /\ r.end.kind = "Included" => k <= r.end.b
  /\ r.end.kind = "Excluded" => k < r.end.b

RECURSIVE Within(_, _)
Within(s, r) ==
  IF Len(s) = 0 THEN <<>>
  ELSE (IF InRange(r, s[1][1]) THEN <<s[1]>> ELSE <<>>) \o Within(Tail(s), r)

\* C15: a range run from the front yields exactly the pairs of the tree
\* whose keys lie in the bounds, each once, in increasing key order.
C15_RangeYieldsInBounds ==
  last.op = "range" =>
    /\ ~last.fwd.err
    /\ last.fwd.items = Within(TreePairs(inner.memory, inner.root, MaxDepth), last.range)

KeysOf(items) == [i \in 1..Len(items) |-> items[i][1]]

Reverse(s) == [i \in 1..Len(s) |-> s[Len(s) + 1 - i]]

FullRange == last.op = "range" /\ last.range = [start |-> Unbounded_, end |-> Unbounded_]

WriteStep == tree.open /\ ~ub /\ steps' < steps /\ result'.op \in WriteOps /\ ~ub'

\* C17: when a write method of the tree returns an error, get on the
\* writer's view returns for every key what it returned before the call,
\* and the committed root is the same.
C17_ErrorLeavesMapping ==
  [][WriteStep /\ result'.err # "ok" =>
       /\ \A k \in TwoKeys :
            BTreeRead_get(WriterMem', tree'.root, k) = BTreeRead_get(WriterMem, tree.root, k)
       /\ inner'.root = inner.root]_vars

Failed == last.op \in {"insert", "replace"} /\ last.res \in {"OutofSpace", "WriteTooLarge"}

BelowAll(key) ==
  /\ tree.open /\ ~ub
  /\ \A pairs \in {TreePairs(WriterMem, tree.root, MaxDepth)} :
       Len(pairs) > 0 /\ \A i \in 1..Len(pairs) : key < pairs[i][1]

\* From page n down to the leaf, every branch stores key as the separator
\* of its first child, and the leaf has key as its first key.
RECURSIVE LeadsTo(_, _, _, _)
LeadsTo(mem, n, key, d) ==
  IF d = 0 \/ n \notin DOMAIN mem THEN FALSE
  ELSE IF LayoutOf(mem[n]) = "L"
    THEN \A ks \in {Keys(mem[n], "L")} : Len(ks) > 0 /\ ks[1] = key
  ELSE \A es \in {Entries(mem, n)} :
         Len(es) > 0 /\ es[1].k = key /\ LeadsTo(mem, es[1].v, key, d - 1)

Holds(key) == tree.open /\ ~ub /\ BTreeRead_get(WriterMem, tree.root, key).res = "some"

\* C20: replace(v) on the occupied entry of a key, for any value within
\* MAX_VAR_SIZE and any fill of the leaf, returns Ok; afterwards get of
\* the key returns v and get of every other key returns what it did.
C20_ReplaceSucceeds ==
  [][\A key \in AllKeys, value \in Values :
       Holds(key) /\ TreeReplace(key, value) =>
         /\ result'.err = "ok" /\ ~ub'
         /\ BTreeRead_get(WriterMem', tree'.root, key) = [res |-> "some", v |-> value]
         /\ \A k \in AllKeys \ {key} :
              BTreeRead_get(WriterMem', tree'.root, k) = BTreeRead_get(WriterMem, tree.root, k)]_vars

\* key is the only pair of the leaf that the writer's descent reaches.
OnlyPair(key) ==
  /\ tree.open /\ ~ub
  /\ \E en \in {BTreeWrite_entry(Mach, key)} :
       /\ en.m.err = "ok" /\ en.e.kind = "occupied"
       /\ upper_len(PageOf(en.m, en.h.ptr)) = 1

\* C21: deleting the only pair of a leaf returns Ok, whether the leaf is
\* the root or lies under a branch; afterwards get of the key is None and
\* get of every other key returns what it returned before.
C21_DeleteOnlyPair ==
  [][\A key \in TwoKeys :
       OnlyPair(key) /\ TreeDelete(key) =>
         /\ result'.err = "ok" /\ ~ub'
         /\ BTreeRead_get(WriterMem', tree'.root, key).res = "none"
         /\ \A k \in TwoKeys \ {key} :
              BTreeRead_get(WriterMem', tree'.root, k) = BTreeRead_get(WriterMem, tree.root, k)]_vars

\* ---------------------------------------------------------------------
\* Traversals of a page graph with a cycle.  The committed pages 0..3
\* hold the graph, and the writer's transaction holds a copy of it in its
\* own pages 4..7, so that the writer's descent stays on dirty pages.
\* ---------------------------------------------------------------------
CyclePages == 4

\* A branch page holding the pairs (k, f[k]).
BranchWith(f) == Built(PageMapMut_new(FreshPage, 0), "B", DOMAIN f, f)

\* The root is its own child.
SelfLoop(b) == (b :> BranchWith((1 :> b)))

\* The root and its child are each other's child.
TwoCycle(b) == (b :> BranchWith((1 :> b + 1))) @@ (b + 1 :> BranchWith((1 :> b)))

\* A root over the leaf lo, a branch that is its own child, and the leaf hi.
MidLoop(b, lo, hi) ==
  (b :> BranchWith((Keys(lo, "L")[1] :> b + 1) @@ (MaxKey + 1 :> b + 2)
                     @@ (Keys(hi, "L")[1] :> b + 3)))
    @@ (b + 1 :> lo) @@ (b + 2 :> BranchWith((MaxKey + 1 :> b + 2))) @@ (b + 3 :> hi)

\* A root over the leaf lo, the root itself, and the leaf hi.
BackEdge(b, lo, hi) ==
  (b :> BranchWith((Keys(lo, "L")[1] :> b + 1) @@ (MaxKey + 1 :> b)
                     @@ (Keys(hi, "L")[1] :> b + 3)))
    @@ (b + 1 :> lo) @@ (b + 3 :> hi)

\* The shapes of the graphs, and the graph of shape s in the pages from b on.
CycleShapes ==
  {<<"SelfLoop">>, <<"TwoCycle">>}
    \cup {<<sh, lo, hi>> : sh \in {"MidLoop", "BackEdge"}, lo \in Leaves({1}), hi \in Leaves(FarKeys)}

GraphOf(b, s) ==
  CASE s[1] = "SelfLoop" -> SelfLoop(b)
    [] s[1] = "TwoCycle" -> TwoCycle(b)
    [] s[1] = "MidLoop" -> MidLoop(b, s[2], s[3])
    [] s[1] = "BackEdge" -> BackEdge(b, s[2], s[3])

InitCycle ==
  /\ junk \in JunkBytes
  /\ \E s \in CycleShapes :
       /\ inner = [root |-> 0, memory |-> GraphOf(0, s),
                   checkouts |-> <<[commit |-> 0, count |-> 1]>>, commit |-> 0]
       /\ cell = [page_num |-> 2 * CyclePages, dirty |-> GraphOf(CyclePages, s), to_drop |-> <<>>,
                  root |-> CyclePages]
  /\ writer = [commit |-> 0, starting_page_num |-> CyclePages, starting_root |-> 0]
  /\ tree = NoTree
  /\ readers = [r \in Readers |-> IF r = 1 THEN [live |-> TRUE, root |-> 0, commit |-> 0]
                                  ELSE [live |-> FALSE, root |-> -1, commit |-> -1]]
  /\ result = [op |-> "new_db", err |-> "ok"]
  /\ ub = FALSE
  /\ ref = EmptyRef
  /\ steps = 1
  /\ seen = [r \in Readers |-> NoView]
  /\ pages = NoPages
  /\ last = NoCall

\* Reader 1 calls get(key).
CycleGet(key) ==
  /\ steps > 0 /\ readers[1].live /\ ~tree.open
  /\ steps' = steps - 1
  /\ last' = [op |-> "get", key |-> key,
              res |-> BTreeRead_get(inner.memory, readers[1].root, key).res]
  /\ UNCHANGED <<treevars, pages>>

\* The writer calls entry(key) on its open tree and drops the entry.
CycleEntry(key) ==
  /\ tree.open /\ ~ub
  /\ \E en \in {BTreeWrite_entry(Mach, key)} : Landed(en.m, "entry")
  /\ UNCHANGED ref

\* What calling next() (or next_back()) until None ends in: "none" at the
\* end of the iteration, "err" when a call returned an error, "running"
\* when a call did not return, "more" when n calls have returned a pair.
RECURSIVE ends_in(_, _, _, _)
ends_in(mem, st, back, n) ==
  IF st.kind = "Err" THEN "err"
  ELSE IF n = 0 THEN "more"
  ELSE Bind([r \in {IF back THEN next_back_internal(mem, st) ELSE next_internal(mem, st)} |->
    IF r.res = "some" THEN ends_in(mem, r.st, back, n - 1) ELSE r.res])

\* Reader 1 opens range(r) and calls next() (or next_back()) on it.
CycleRange(r, back) ==
  /\ steps > 0 /\ readers[1].live /\ ~tree.open
  /\ steps' = steps - 1
  /\ \E st \in {BTreeRead_range(inner.memory, readers[1].root, r)} :
       last' = [op |-> "range", range |-> r, back |-> back, opened |-> st.kind,
                res |-> ends_in(inner.memory, st, back, MaxItems)]
  /\ UNCHANGED <<treevars, pages>>

NextCycle ==
  \/ OpenTree
  \/ \E key \in RangeKeys : CycleGet(key)
  \/ \E key \in RangeKeys : CycleEntry(key)
  \/ \E r \in Ranges, back \in BOOLEAN : CycleRange(r, back)

SpecCycle == InitCycle /\ [][NextCycle]_vars

\* C22: on a page graph with a cycle every traversal returns: get, entry,
\* the opening of a range and each next() and next_back() descend
\* MaxLevels levels at most and return an error beyond that.
C22_TraversalsReturn ==
  /\ last.op = "range" => last.res # "running"
  /\ last.op = "get" /\ last.key >= 1 /\ inner.memory \in {SelfLoop(0), TwoCycle(0)} =>
       last.res = "err"
  /\ FullRange /\ inner.memory \in {SelfLoop(0), TwoCycle(0)} =>
       last.opened = "Err"
  /\ result.op = "entry" /\ cell.dirty \in {SelfLoop(CyclePages), TwoCycle(CyclePages)} =>
       result.err = "DataCorruption"

\* The page numbers the current transaction has queued for freeing: the
\* deallocate calls that did not name a dirty page, in call order.
TxnDrops == queued

OccupiedEntry_get(p, ly, e) == read_value(ly, ReadCells(p, e.off + e.kl, e.vl))

\* BTreeWrite::as_read: the page lent out as the root of the read view is
\* the root leaf in hand, else the first branch in hand, else the page
\* loaded under the root's number.
BTreeWrite_as_read(m) ==
  IF m.leaf # NoHandle THEN PageOf(m, m.leaf.ptr)
  ELSE IF Len(m.branches) > 0 THEN PageOf(m, m.branches[1].ptr)
  ELSE PageOf(m, m.root)

\* as_read().get(key) on the write tree of machine m.
as_read_get(m, key) ==
  Bind([mem \in {[n \in DOMAIN m.dirty \cup DOMAIN m.memory |-> PageOf(m, n)]} |->
    IF m.leaf = NoHandle /\ Len(m.branches) = 0 /\ ~ReadPage_ok(mem, m.root)
      THEN [res |-> "err"]
    ELSE IF ~from_page_ok(BTreeWrite_as_read(m), LayoutOf(BTreeWrite_as_read(m)))
      THEN [res |-> "err"]
    ELSE get_from(mem, BTreeWrite_as_read(m), key, 0)])

\* C24: between write operations, as_read().get(k) is Some(v) exactly when
\* entry(k) is Occupied with value v, and None exactly when entry(k) is
\* Vacant.
C24_GetAgreesWithEntry ==
  tree.open /\ ~ub =>
    \A key \in TwoKeys :
      \A g \in {as_read_get(Mach, key)}, en \in {BTreeWrite_entry(Mach, key)} :
        en.m.err # "Bound" =>
          /\ g.res = "some" <=>
               /\ en.m.err = "ok" /\ en.e.kind = "occupied"
               /\ OccupiedEntry_get(PageOf(en.m, en.h.ptr), "L", en.e) = g.v
          /\ g.res = "none" <=> (en.m.err = "ok" /\ en.e.kind = "vacant")

\* The frees queued by transactions that were committed.
Committed(to_drop) == SelectSeq(to_drop, LAMBDA d : d.tag <= writer.commit)

Zero64 == [i \in 1..8 |-> 0]

\* leading_zeros() >> 3: the number of high bytes of w that are zero.
RECURSIVE lz_bytes(_, _)
lz_bytes(w, i) == IF i = 0 \/ w[i] # 0 THEN 8 - i ELSE lz_bytes(w, i - 1)

RECURSIVE BitOr(_, _)
BitOr(a, b) ==
  IF a = 0 THEN b ELSE IF b = 0 THEN a
  ELSE (IF a % 2 = 1 \/ b % 2 = 1 THEN 1 ELSE 0) + 2 * BitOr(a \div 2, b \div 2)

\* mask & w for the mask keeping the low keep bytes.
Masked(w, keep) == [i \in 1..8 |-> IF i <= keep THEN w[i] ELSE 0]

\* (old & !mask) | w.
Merged(old, w, keep) == [i \in 1..8 |-> IF i <= keep THEN w[i] ELSE BitOr(old[i], w[i])]

\* read_unaligned of the u64 at offset off of the bytes d.
Read64(d, off) == [i \in 1..8 |-> d[off + i]]

\* write_unaligned of the u64 w at offset off of the bytes d.
Write64(d, off, w) ==
  [i \in 1..Len(d) |-> IF i > off /\ i <= off + 8 THEN w[i - off] ELSE d[i]]

\* LayoutU64U64::from_info.
U64U64_from_info(info) ==
  LET val_bits == (info % 128) - (info % 8)
  IN [info |-> info,
      val_len |-> IF val_bits >= 16 THEN 0 ELSE 8 - val_bits,
      val_mask |-> IF val_bits >= 16 THEN 0 ELSE 8 - (val_bits \div 8),
      key_len |-> 8 - (info % 8),
      key_mask |-> 8 - (info % 8)]

\* LayoutU64U64::from_data.  u64::MAX >> 64 (the value 0) overflows the
\* shift: a debug build panics, a release build shifts by 0.
U64U64_from_data(key, val, build) ==
  LET key_bits == Min(lz_bytes(key, 8), 7)
      val_bits == lz_bytes(val, 8)
  IN IF val_bits = 8 /\ build = "debug" THEN [res |-> "panic"]
     ELSE [res |-> "ok", info |-> (key_bits + 8 * val_bits) % 256,
           key_len |-> 8 - key_bits, val_len |-> 8 - val_bits,
           key_mask |-> 8 - key_bits,
           val_mask |-> IF val_bits = 8 THEN 8 ELSE 8 - val_bits]

\* LayoutU64U64::write_pair: both words are fetched from the start of dest.
U64U64_write_pair(l, key, val, dest) ==
  LET new_key == Merged(Read64(dest, 0), key, l.key_mask)
      new_val == Merged(Read64(dest, 0), val, l.val_mask)
  IN Write64(Write64(dest, 0, new_key), l.key_len, new_val)

\* LayoutU64U64::read_key on the pair at the start of src, and read_value
\* on the bytes after the key.
U64U64_read_pair(l, src) ==
  [key |-> Masked(Read64(src, 0), l.key_mask),
   value |-> Masked(Read64(src, l.key_len), l.val_mask)]

\* A from_info that does not clamp the value bits.
VarU64_from_info_unclamped(info) ==
  [info |-> info,
   key_len |-> Min(((info % 65536) - (info % 16)) \div 16, MAX_VAR_SIZE),
   val_len |-> 8 - (info % 16)]

\* LayoutVarU64::from_info.
VarU64_from_info(info) ==
  [info |-> info,
   key_len |-> Min(((info % 65536) - (info % 16)) \div 16, MAX_VAR_SIZE),
   val_len |-> 8 - Min(info % 16, 8)]

\* LayoutVarU64::from_data.
VarU64_from_data(key, val) ==
  IF Len(key) > MAX_VAR_SIZE THEN [res |-> "WriteTooLarge"]
  ELSE [res |-> "ok", info |-> (Len(key) * 16 + lz_bytes(val, 8)) % 65536,
        key_len |-> Len(key), val_len |-> 8 - lz_bytes(val, 8)]

\* LayoutVarU64::write_pair.
VarU64_write_pair(l, key, val, dest) ==
  LET d1 == WriteCells(dest, 0, key)
  IN IF l.val_len = 0 THEN d1
     ELSE Write64(d1, Len(key), Merged(Read64(d1, Len(key)), val, 8 - (l.info % 8)))

\* LayoutVarU64::read_key and read_value on a written pair.
VarU64_read_pair(l, src) ==
  [key |-> ReadCells(src, 0, l.key_len),
   value |-> IF l.val_len = 0 THEN Zero64
             ELSE Masked(Read64(src, l.key_len), 8 - (l.info % 8))]

\* LayoutU64Var::parse_val; a value is a page-local byte string
\* (VarTypes::Value) or the page number of a sub-tree (VarTypes::Page).
U64Var_parse_val(value) ==
  IF value.id = "Page"
    THEN [res |-> "ok", id |-> "Page", len |-> 8 - Min(lz_bytes(value.p, 8), 7),
          bits |-> Min(lz_bytes(value.p, 8), 7) + 3072]
  ELSE IF Len(value.v) <= MAX_VAR_SIZE
    THEN [res |-> "ok", id |-> "Value", len |-> Len(value.v), bits |-> Len(value.v)]
  ELSE [res |-> "WriteTooLarge"]

\* LayoutU64Var::from_data.
U64Var_from_data(key, value) ==
  LET key_bits == Min(lz_bytes(key, 8), 7)
      pv == U64Var_parse_val(value)
  IN IF pv.res # "ok" THEN pv
     ELSE [res |-> "ok", info |-> (pv.bits * 16 + key_bits) % 65536, key_len |-> 8 - key_bits,
           val_len |-> pv.len, id |-> pv.id]

\* LayoutU64Var::from_info.
U64Var_from_info(info) ==
  LET val_len == ((info % 65536) - (info % 16)) \div 16
  IN [info |-> info, key_len |-> 8 - (info % 8),
      id |-> IF val_len > MAX_VAR_SIZE
               THEN (IF (val_len \div 1024) % 4 = 3 THEN "Page" ELSE "Ref")
             ELSE "Value",
      val_len |-> IF val_len > MAX_VAR_SIZE
                    THEN (IF (val_len \div 1024) % 4 = 3 THEN 8 - (val_len % 8) ELSE 11)
                  ELSE val_len]

\* LayoutU64Var::write_pair.
U64Var_write_pair(l, key, value, dest) ==
  LET d1 == Write64(dest, 0, Merged(Read64(dest, 0), key, 8 - (l.info % 8)))
  IN IF value.id = "Page"
       THEN Write64(d1, l.key_len,
                    Merged(Read64(d1, l.key_len), value.p, 8 - ((l.info \div 16) % 8)))
     ELSE WriteCells(d1, l.key_len, value.v)

\* LayoutU64Var::read_key and read_value on a written pair.
U64Var_read_pair(l, src) ==
  [key |-> Masked(Read64(src, 0), 8 - (l.info % 8)),
   value |-> IF l.id = "Page"
               THEN [id |-> "Page",
                     p |-> Masked(Read64(src, l.key_len), 8 - ((l.info \div 16) % 8))]
             ELSE IF l.id = "Value"
               THEN [id |-> "Value", v |-> ReadCells(src, l.key_len, l.val_len)]
             ELSE [id |-> "Ref"]]

\* LayoutU64U64::update_value; val_len is not assigned.  u64::MAX >> 64
\* (the value 0) overflows the shift as in from_data.
U64U64_update_value(l, new, build) ==
  LET val_bits == lz_bytes(new, 8)
  IN IF val_bits = 8 /\ build = "debug" THEN [res |-> "panic"]
     ELSE [res |-> "ok", delta |-> (8 - val_bits) - l.val_len,
           info |-> BitOr((val_bits * 8) % 256, l.info % 8),
           key_len |-> l.key_len, val_len |-> l.val_len]

\* LayoutVarU64::update_value.
VarU64_update_value(l, new) ==
  LET val_bits == lz_bytes(new, 8)
  IN [res |-> "ok", delta |-> (8 - val_bits) - l.val_len,
      info |-> BitOr(l.info % 4096, val_bits),
      key_len |-> l.key_len, val_len |-> 8 - val_bits]

\* LayoutU64Var::update_value.
U64Var_update_value(l, new) ==
  LET pv == U64Var_parse_val(new)
  IN IF pv.res # "ok" THEN pv
     ELSE [res |-> "ok", delta |-> pv.len - l.val_len,
           info |-> BitOr(l.info % 8, (pv.bits * 16) % 65536),
           key_len |-> l.key_len, val_len |-> pv.len]

\* The u64 the pairs are made of: at most two of the eight bytes are set.
MaxSetBytes == 2

Words == {w \in [1..8 -> {0, 1}] : Cardinality({i \in 1..8 : w[i] = 1}) <= MaxSetBytes}

\* Byte strings within the limit.
Strings == {Value(n) : n \in {0, 1, 2, MAX_VAR_SIZE}}

\* The memory a pair is written to, as the golden tests fill it.
Blank == [i \in Cells |-> 255]

LayoutPairs ==
  [ly : {"U64U64"}, key : Words, value : Words, build : {"debug", "release"}]
    \cup [ly : {"VarU64"}, key : Strings, value : Words, build : {"release"}]
    \cup [ly : {"U64Var"}, key : Words,
          value : [id : {"Value"}, v : Strings] \cup [id : {"Page"}, p : Words],
          build : {"release"}]

InitLayout ==
  /\ junk \in JunkBytes
  /\ inner = [root |-> 0, memory |-> (0 :> PageMapMut_new(FreshPage, 1)),
              checkouts |-> <<>>, commit |-> 0]
  /\ cell = [page_num |-> 1, dirty |-> <<>>, to_drop |-> <<>>, root |-> 0]
  /\ writer = [commit |-> 0, starting_page_num |-> 1, starting_root |-> 0]
  /\ tree = NoTree
  /\ readers = [r \in Readers |-> [live |-> FALSE, root |-> -1, commit |-> -1]]
  /\ result = [op |-> "new_db", err |-> "ok"]
  /\ ub = FALSE
  /\ ref = EmptyRef
  /\ steps = 1
  /\ seen = [r \in Readers |-> NoView]
  /\ pages = NoPages
  /\ \E pair \in LayoutPairs : last = [op |-> "pair", pair |-> pair]

\* from_data on the pair, write_pair into blank memory, then from_info on
\* the info produced and read_key and read_value through it.
Encoded(pair) ==
  LET data == CASE pair.ly = "U64U64" -> U64U64_from_data(pair.key, pair.value, pair.build)
                [] pair.ly = "VarU64" -> VarU64_from_data(pair.key, pair.value)
                [] pair.ly = "U64Var" -> U64Var_from_data(pair.key, pair.value)
  IN IF data.res # "ok" THEN [res |-> data.res]
     ELSE LET bytes == CASE pair.ly = "U64U64" -> U64U64_write_pair(data, pair.key, pair.value, Blank)
                         [] pair.ly = "VarU64" -> VarU64_write_pair(data, pair.key, pair.value, Blank)
                         [] pair.ly = "U64Var" -> U64Var_write_pair(data, pair.key, pair.value, Blank)
              info == CASE pair.ly = "U64U64" -> U64U64_from_info(data.info)
                        [] pair.ly = "VarU64" -> VarU64_from_info(data.info)
                        [] pair.ly = "U64Var" -> U64Var_from_info(data.info)
              back == CASE pair.ly = "U64U64" -> U64U64_read_pair(info, bytes)
                        [] pair.ly = "VarU64" -> VarU64_read_pair(info, bytes)
                        [] pair.ly = "U64Var" -> U64Var_read_pair(info, bytes)
          IN [res |-> "ok", key_len |-> data.key_len, val_len |-> data.val_len,
              info_key_len |-> info.key_len, info_val_len |-> info.val_len,
              key |-> back.key, value |-> back.value]

RoundTrip ==
  /\ steps > 0 /\ last.op = "pair"
  /\ steps' = steps - 1
  /\ last' = [op |-> "round_trip", pair |-> last.pair, out |-> Encoded(last.pair)]
  /\ UNCHANGED <<treevars, pages>>

NextLayout == RoundTrip

SpecLayout == InitLayout /\ [][NextLayout]_vars

\* C26: for each of the three layouts and every key and value within its
\* limits, the info that from_data produces decodes through from_info to
\* the key and value lengths from_data computed, and the bytes written
\* read back as the key and the value.
C26_LayoutRoundTrip ==
  last.op = "round_trip" =>
    /\ last.out.res = "ok"
    /\ last.out.info_key_len = last.out.key_len
    /\ last.out.info_val_len = last.out.val_len
    /\ last.out.key = last.pair.key
    /\ last.out.value = last.pair.value

\* ---------------------------------------------------------------------
\* copy_to on its own and in the load of a clean page for write: the
\* source is a leaf or a branch built by inserts, and is also the root of
\* the committed tree; the destination is fresh memory or a page with
\* other content.
\* ---------------------------------------------------------------------
CopySources == BuiltPages(1, "L", LowKeys) \cup BuiltPages(0, "B", LowKeys)

CopyDests == {FreshPage} \cup BuiltPages(1, "L", {MaxKey})

InitCopy ==
  /\ junk \in JunkBytes
  /\ pages \in [lower : CopySources, higher : CopyDests]
  /\ inner = [root |-> 0, memory |-> (0 :> pages.lower),
              checkouts |-> <<[commit |-> 0, count |-> 1]>>, commit |-> 0]
  /\ cell = [page_num |-> 1, dirty |-> <<>>, to_drop |-> <<>>, root |-> 0]
  /\ writer = [commit |-> 0, starting_page_num |-> 1, starting_root |-> 0]
  /\ tree = NoTree
  /\ readers = [r \in Readers |-> [live |-> FALSE, root |-> -1, commit |-> -1]]
  /\ result = [op |-> "new_db", err |-> "ok"]
  /\ ub = FALSE
  /\ ref = EmptyRef
  /\ steps = 1
  /\ seen = [r \in Readers |-> NoView]
  /\ last = NoCall

\* pages.lower.copy_to(pages.higher).
PageCopy ==
  /\ steps > 0 /\ ~tree.open
  /\ steps' = steps - 1
  /\ pages' = [lower |-> pages.lower,
               higher |-> copy_to(pages.lower, PageLayout, pages.higher)]
  /\ last' = [op |-> "copy_to", before |-> pages]
  /\ UNCHANGED treevars

NextCopy == PageCopy \/ (steps > 0 /\ OpenTree)

SpecCopy == InitCopy /\ [][NextCopy]_vars

\* Page c reads as page p does: the same pairs in the same order, the
\* same two lengths and the same page type.
ReadsAs(c, p) ==
  /\ iter(c, LayoutOf(c)) = iter(p, LayoutOf(p))
  /\ lower_len(c) = lower_len(p) /\ upper_len(c) = upper_len(p)
  /\ page_type(c) = page_type(p)

TrimKeys == {2, 4, 6}

InitTrim ==
  /\ junk \in JunkBytes
  /\ inner = [root |-> 0, memory |-> (0 :> PageMapMut_new(FreshPage, 1)),
              checkouts |-> <<[commit |-> 0, count |-> 1]>>, commit |-> 0]
  /\ cell = [page_num |-> 1, dirty |-> <<>>, to_drop |-> <<>>, root |-> 0]
  /\ writer = [commit |-> 0, starting_page_num |-> 1, starting_root |-> 0]
  /\ tree = NoTree
  /\ readers = [r \in Readers |-> [live |-> FALSE, root |-> -1, commit |-> -1]]
  /\ result = [op |-> "new_db", err |-> "ok"]
  /\ ub = FALSE
  /\ ref = EmptyRef
  /\ steps = 1
  /\ seen = [r \in Readers |-> NoView]
  /\ \E p \in BuiltPages(0, "B", TrimKeys) :
       upper_len(p) > 0 /\ pages = [lower |-> p, higher |-> <<>>]
  /\ last = NoCall

\* trim_branch(&mut pages.lower.iter(), &r).
TrimBranch(r) ==
  /\ steps > 0
  /\ steps' = steps - 1
  /\ last' = [op |-> "trim_branch", range |-> r,
              out |-> trim_branch(PageMap_iter(pages.lower, "B"), r)]
  /\ UNCHANGED <<treevars, pages>>

NextTrim == \E r \in Ranges : TrimBranch(r)

SpecTrim == InitTrim /\ [][NextTrim]_vars

\* Separator k is within the upper bound.
WithinUpper(bound, k) ==
  \/ bound.kind = "Unbounded"
  \/ bound.kind = "Included" /\ k <= bound.b
  \/ bound.kind = "Excluded" /\ k < bound.b

\* The entries the claim has trim_branch keep, as indices into the
\* separators seps: from the last separator not above the lower bound (the
\* first entry when there is none or no bound) to the last separator
\* within the upper bound.
FirstKept(seps, start) ==
  IF start.kind = "Unbounded" \/ \A i \in 1..Len(seps) : seps[i] > start.b THEN 1
  ELSE CHOOSE i \in 1..Len(seps) :
         seps[i] <= start.b /\ \A j \in 1..Len(seps) : seps[j] <= start.b => j <= i

LastKept(seps, end) ==
  CHOOSE i \in 1..Len(seps) :
    WithinUpper(end, seps[i]) /\ \A j \in 1..Len(seps) : WithinUpper(end, seps[j]) => j <= i

\* C28: after trim_branch the first entry kept is the last one whose
\* separator is not above the lower bound (the first entry when there is
\* none, or no lower bound), the last entry kept is the last one whose
\* separator is within the upper bound, and all entries between are kept.
C28_TrimBranchKeeps ==
  \A seps \in {Keys(pages.lower, "B")} :
    /\ last.op = "trim_branch"
    /\ \E i \in 1..Len(seps) : WithinUpper(last.range.end, seps[i])
    /\ FirstKept(seps, last.range.start) <= LastKept(seps, last.range.end)
    => /\ ~last.out.err
       /\ last.out.it.i + 1 = FirstKept(seps, last.range.start)
       /\ last.out.it.j = LastKept(seps, last.range.end)

\* The find_cutpoint call the last split_to or balance made on the pages
\* it was given: its page, target and limit.
LastCut ==
  LET lo == last.before.lower
      hi == last.before.higher
      ly == PageLayout
      self_len == data_len(lo, ly)
      higher_len == data_len(hi, ly)
  IN IF last.op = "split_to"
       THEN find_cutpoint(lo, ly, total(lo, ly) \div 2, total(lo, ly))
     ELSE IF self_len > higher_len
       THEN find_cutpoint(lo, ly, (self_len - higher_len) \div 2, free_space(hi, ly))
     ELSE find_cutpoint(hi, ly, (higher_len - self_len) \div 2, free_space(lo, ly))

\* The last call was a split_to, or a balance that took a move branch, on
\* well-formed pages.
CutCalled ==
  /\ last.op \in {"split_to", "balance"}
  /\ from_page_ok(last.before.lower, PageLayout)
  /\ last.op = "balance" =>
       /\ from_page_ok(last.before.higher, PageLayout)
       /\ ~CanMerge(data_len(last.before.lower, PageLayout),
                    data_len(last.before.higher, PageLayout))

\* C29: find_cutpoint returns UnexpectedNoOp whenever it selects no entry
\* to move, and so do split_to and the move branches of balance: no cut
\* point, split or Balanced result is reported with zero entries moved.
C29_NoEmptyCut ==
  CutCalled =>
    /\ LastCut.err = "ok" => LastCut.lower_len > 0
    /\ last.res = "ok" => LastCut.err = "ok" /\ LastCut.lower_len > 0

\* The combined data length of the two pages the last balance was given.
CombinedLen ==
  data_len(last.before.lower, PageLayout) + data_len(last.before.higher, PageLayout)

\* C30: balance returns Merged exactly when the combined data of the two
\* pages fits in one page's content area, a combined length equal to
\* CONTENT_SIZE included, and Balanced only when it does not fit.
C30_MergedWhenFits ==
  /\ last.op = "balance"
  /\ from_page_ok(last.before.lower, PageLayout)
  /\ from_page_ok(last.before.higher, PageLayout)
  => /\ CombinedLen <= CONTENT_SIZE => last.res = "ok" /\ last.kind = "Merged"
     /\ last.kind = "Merged" => CombinedLen <= CONTENT_SIZE
     /\ last.kind = "Balanced" => CombinedLen > CONTENT_SIZE

\* ---------------------------------------------------------------------
\* Deletes that merge: a committed root branch over three leaves (pages 1
\* to 3), and a tree of depth 3 written by the open transaction (root 1
\* over branch 2, with leaves 4 and 5, and branch 3, with leaf 6).
\* ---------------------------------------------------------------------
MergeKeys == 1..(MaxKey + 3)

MergeTrees ==
  {(0 :> RootOver3(lo, mid, hi)) @@ (1 :> lo) @@ (2 :> mid) @@ (3 :> hi) :
     lo \in Leaves({1, 2}), mid \in Leaves(HighKeys), hi \in Leaves({MaxKey + 3})}

\* The branch page with the entries of f.
BranchOf(f) == Built(PageMapMut_new(FreshPage, 0), "B", DOMAIN f, f)

DeepMergeTrees ==
  {(1 :> BranchOf((Keys(lo, "L")[1] :> 2) @@ (Keys(hi, "L")[1] :> 3)))
     @@ (2 :> BranchOf((Keys(lo, "L")[1] :> 4) @@ (Keys(mid, "L")[1] :> 5)))
     @@ (3 :> BranchOf((Keys(hi, "L")[1] :> 6)))
     @@ (4 :> lo) @@ (5 :> mid) @@ (6 :> hi) :
     lo \in Leaves({1, 2}), mid \in Leaves(HighKeys), hi \in Leaves({MaxKey + 3})}

InitMerge ==
  /\ junk \in JunkBytes
  /\ \/ \E memory \in MergeTrees :
          /\ inner = [root |-> 0, memory |-> memory,
                      checkouts |-> <<[commit |-> 0, count |-> 1]>>, commit |-> 0]
          /\ cell = [page_num |-> 4, dirty |-> <<>>, to_drop |-> <<>>, root |-> 0]
          /\ writer = [commit |-> 0, starting_page_num |-> 4, starting_root |-> 0]
     \/ \E dirty \in DeepMergeTrees :
          /\ inner = [root |-> 0, memory |-> (0 :> PageMapMut_new(FreshPage, 1)),
                      checkouts |-> <<[commit |-> 0, count |-> 1]>>, commit |-> 0]
          /\ cell = [page_num |-> 7, dirty |-> dirty, to_drop |-> <<>>, root |-> 1]
          /\ writer = [commit |-> 0, starting_page_num |-> 1, starting_root |-> 0]
  /\ tree = NoTree
  /\ readers = [r \in Readers |-> [live |-> FALSE, root |-> -1, commit |-> -1]]
  /\ result = [op |-> "new_db", err |-> "ok"]
  /\ ub = FALSE
  /\ ref = EmptyRef
  /\ steps = 1
  /\ seen = [r \in Readers |-> NoView]
  /\ pages = NoPages
  /\ last = NoCall

NextMerge ==
  \/ OpenTree
  \/ \E key \in MergeKeys : CycleEntry(key)
  \/ \E key \in MergeKeys : Delete(key)

SpecMerge == InitMerge /\ [][NextMerge]_vars

\* The pair of children the balance after the delete of key works on, when
\* the delete leaves the leaf a candidate for rebalancing, the leaf has a
\* neighbour under its parent and the two fit one page: lower and higher
\* are the entries of the parent, sep the separator of the higher child.
MergingPair(key) ==
  LET en == BTreeWrite_entry(Mach, key)
      m2 == delete_pair(en.m, en, key)
      parent == m2.branches[Len(m2.branches)]
      pr == balance_pair(iter_rev(PageOf(m2, parent.ptr), "B"), key, 1, NoItem, NoItem)
  IN IF /\ tree.open /\ ~ub
        /\ en.m.err = "ok" /\ en.e.kind = "occupied"
        /\ m2.err = "ok"
        /\ NeedsBalance(free_space(PageOf(m2, en.h.ptr), "L"))
        /\ Len(m2.branches) > 0
        /\ ~pr.err /\ pr.v0 # NoItem /\ pr.v1 # NoItem
        /\ CanMerge(data_len(PageOf(m2, pr.v0.v), "L"), data_len(PageOf(m2, pr.v1.v), "L"))
       THEN [merges |-> TRUE, lower |-> pr.v0.v, higher |-> pr.v1.v, sep |-> pr.v1.k,
             before |-> Reach([n \in DOMAIN m2.dirty \cup DOMAIN m2.memory |-> PageOf(m2, n)],
                              m2.root, MaxDepth)]
       ELSE [merges |-> FALSE]

\* Page n is no longer a page of the writer's view: a page of this
\* transaction has been given back, a committed one is queued to be freed.
Gone(n) ==
  /\ n \notin DOMAIN cell.dirty
  /\ n \in DOMAIN inner.memory => Dropped(n)

\* Every child a branch reachable from the root refers to is a page of
\* the writer's view that has not been deallocated.
NoDangling ==
  \A n \in Reach(WriterMem, tree.root, MaxDepth) :
    LayoutOf(WriterMem[n]) = "B" =>
      \A i \in 1..Len(Entries(WriterMem, n)) :
        \A c \in {Entries(WriterMem, n)[i].v} : c \in DOMAIN WriterMem /\ ~Gone(c)

\* The separators stored in the branches reachable from the root.
Separators ==
  UNION {{Entries(WriterMem, n)[i].k : i \in 1..Len(Entries(WriterMem, n))} :
           n \in {x \in Reach(WriterMem, tree.root, MaxDepth) : LayoutOf(WriterMem[x]) = "B"}}

\* C31: after a balance that ends in Merged, the parent branch no longer
\* holds the separator of the higher page, the higher page is deallocated
\* and no branch reachable from the root refers to a deallocated page, at
\* every level the merge goes up to: each page that left the tree is
\* deallocated.
C31_MergeUnlinksHigher ==
  [][\A key \in MergeKeys : \A mp \in {MergingPair(key)} :
       mp.merges /\ TreeDelete(key) =>
         /\ ~ub'
         /\ mp.sep \notin Separators'
         /\ Gone(mp.higher)'
         /\ NoDangling'
         /\ \A n \in mp.before \ Reach(WriterMem', tree'.root, MaxDepth) : Gone(n)']_vars

\* The page numbers from page n down to the leaf that key leads to.
RECURSIVE PathTo(_, _, _, _)
PathTo(mem, n, key, d) ==
  IF d = 0 \/ n \notin DOMAIN mem \/ LayoutOf(mem[n]) = "L" THEN <<n>>
  ELSE LET sel == branch_seek(iter_rev(mem[n], "B"), key, 1)
       IN IF sel.res # "some" THEN <<n>>
          ELSE <<n>> \o PathTo(mem, sel.item.v, key, d - 1)

\* The pages of sequence s that are committed pages not written by the
\* open transaction.
CleanOf(s) == {s[i] : i \in {j \in 1..Len(s) : s[j] \notin DOMAIN cell.dirty}}

\* All pages the open transaction has handed to deallocate and that are
\* queued, in order.
RECURSIVE AllDropped(_)
AllDropped(to_drop) ==
  IF Len(to_drop) = 0 THEN <<>> ELSE to_drop[1].pages \o AllDropped(Tail(to_drop))

AddrSpace == 16

ArrBase == 4

ArrCap == 6

\* Calls made on one cursor.
ArrOps == 3

\* Key and value sizes of the pairs read and inserted.
MaxPairLen == 2

Addr == 0..(AddrSpace - 1)

Wrap(x) == x % AddrSpace

\* Sizes asked for: those of pairs, and the largest usize.
StepSizes == 0..MaxPairLen \cup {AddrSpace - 1}

CursorKinds == {"KeyValArray", "KeyValArrayMut", "KeyValArrayMutResize"}

\* new(data) over a slice of n bytes.
KeyValArray_new(kind, n) ==
  [kind |-> kind, front |-> ArrBase, back |-> ArrBase + n, end |-> ArrBase + n,
   back_val |-> ArrBase + n, prev_back_key |-> ArrBase + n]

\* KeyValArray::next_pair and KeyValArrayMut::next_pair.
KeyValArray_next_pair(kv, key_size, val_size) ==
  LET val_ptr == Wrap(kv.front + key_size)
      new_front == Wrap(val_ptr + val_size)
  IN IF new_front > kv.back THEN [res |-> "DataCorruption", kv |-> kv]
     ELSE [res |-> "ok", kv |-> [kv EXCEPT !.front = new_front]]

\* KeyValArray::next_pair_back and KeyValArrayMut::next_pair_back.
KeyValArray_next_pair_back(kv, key_size, val_size) ==
  LET val_ptr == Wrap(kv.back - val_size)
      new_back == Wrap(val_ptr - key_size)
  IN IF new_back < kv.front THEN [res |-> "DataCorruption", kv |-> kv]
     ELSE [res |-> "ok", kv |-> [kv EXCEPT !.back = new_back]]

\* KeyValArrayMutResize::next_pair_back.
Resize_next_pair_back(kv, key_size, val_size) ==
  LET kv1 == [kv EXCEPT !.prev_back_key = kv.back]
      val_ptr == Wrap(kv.back - val_size)
      new_back == Wrap(val_ptr - key_size)
  IN IF new_back < kv.front THEN [res |-> "DataCorruption", kv |-> kv1]
     ELSE [res |-> "ok", kv |-> [kv1 EXCEPT !.back = new_back, !.back_val = val_ptr]]

\* KeyValArrayMutResize::next_pair_back_none.
Resize_next_pair_back_none(kv) ==
  IF kv.back # kv.front THEN [res |-> "DataCorruption", kv |-> kv]
  ELSE [res |-> "ok", kv |-> [kv EXCEPT !.prev_back_key = kv.back, !.back_val = kv.back]]

\* core::ptr::copy of n bytes from src to dst.
MoveBytes(data, src, dst, n) ==
  [a \in Addr |-> IF a >= dst /\ a < dst + n /\ (a - dst + src) \in Addr
                    THEN data[a - dst + src] ELSE data[a]]

\* The pair a successful step hands out does not lie between front and
\* back.
StepEscapes(kv, res, key_size, val_size) ==
  res = "ok" /\ key_size + val_size > kv.back - kv.front

\* The copy leaves the memory behind the slice.
MoveEscapes(dst, n) == n > 0 /\ (dst < ArrBase \/ dst + n > ArrBase + ArrCap)

\* KeyValArrayMutResize::back_insert.
Resize_back_insert(kv, data, key_size, val_size) ==
  LET pair_size == key_size + val_size
      n == Wrap(kv.end - kv.prev_back_key)
  IN [kv |-> [kv EXCEPT !.end = kv.end + pair_size, !.back = kv.prev_back_key,
                        !.back_val = kv.prev_back_key + key_size],
      data |-> MoveBytes(data, kv.prev_back_key, kv.prev_back_key + pair_size, n),
      oob |-> MoveEscapes(kv.prev_back_key + pair_size, n)]

\* KeyValArrayMutResize::delete; len is the number of bytes returned.
Resize_delete(kv, data) ==
  LET n == Wrap(kv.end - kv.prev_back_key)
  IN [kv |-> [kv EXCEPT !.prev_back_key = kv.back, !.back_val = kv.back],
      data |-> MoveBytes(data, kv.prev_back_key, kv.back, n),
      oob |-> MoveEscapes(kv.back, n),
      len |-> kv.prev_back_key - kv.back]

\* KeyValArrayMutResize::resize.
Resize_resize(kv, data, delta) ==
  LET new_prev_back_key == kv.prev_back_key + delta
      n == Wrap(kv.end - kv.prev_back_key)
  IN [kv |-> [kv EXCEPT !.end = kv.end + delta, !.prev_back_key = new_prev_back_key],
      data |-> MoveBytes(data, kv.prev_back_key, new_prev_back_key, n),
      oob |-> MoveEscapes(new_prev_back_key, n)]

\* KeyValArrayMutResize::key and val: where the slice starts and its
\* length (offset_from(..) as usize).
Resize_key(kv) == [ptr |-> kv.back, len |-> Wrap(kv.back_val - kv.back)]

Resize_val(kv) == [ptr |-> kv.back_val, len |-> Wrap(kv.prev_back_key - kv.back_val)]

InitArray ==
  /\ junk \in JunkBytes
  /\ inner = [root |-> 0, memory |-> (0 :> PageMapMut_new(FreshPage, 1)),
              checkouts |-> <<>>, commit |-> 0]
  /\ cell = [page_num |-> 1, dirty |-> <<>>, to_drop |-> <<>>, root |-> 0]
  /\ writer = [commit |-> 0, starting_page_num |-> 1, starting_root |-> 0]
  /\ tree = NoTree
  /\ readers = [r \in Readers |-> [live |-> FALSE, root |-> -1, commit |-> -1]]
  /\ result = [op |-> "new_db", err |-> "ok"]
  /\ ub = FALSE
  /\ ref = EmptyRef
  /\ steps = ArrOps
  /\ seen = [r \in Readers |-> NoView]
  /\ pages = NoPages
  /\ \E kind \in CursorKinds, n \in 0..ArrCap :
       last = [op |-> "new", res |-> "ok", kv |-> KeyValArray_new(kind, n),
               data |-> [a \in Addr |-> a], used |-> n, cur |-> [ks |-> 0, vs |-> 0],
               oob |-> FALSE]

\* The call op with sizes ks and vs has returned res and left the cursor
\* kv over the bytes data.
ArrCalled(op, ks, vs, res, kv, data, used, cur, oob) ==
  /\ steps > 0 /\ ~last.oob
  /\ steps' = steps - 1
  /\ last' = [op |-> op, ks |-> ks, vs |-> vs, res |-> res, kv |-> kv, data |-> data,
              used |-> used, cur |-> cur, oob |-> oob,
              before |-> [kv |-> last.kv, data |-> last.data, used |-> last.used,
                          cur |-> last.cur]]
  /\ UNCHANGED <<treevars, pages>>

ArrNextPair(ks, vs) ==
  /\ last.kv.kind # "KeyValArrayMutResize"
  /\ \E r \in {KeyValArray_next_pair(last.kv, ks, vs)} :
       ArrCalled("next_pair", ks, vs, r.res, r.kv, last.data, last.used, last.cur,
                 StepEscapes(last.kv, r.res, ks, vs))

ArrNextPairBack(ks, vs) ==
  \E r \in {IF last.kv.kind = "KeyValArrayMutResize"
              THEN Resize_next_pair_back(last.kv, ks, vs)
              ELSE KeyValArray_next_pair_back(last.kv, ks, vs)} :
    ArrCalled("next_pair_back", ks, vs, r.res, r.kv, last.data, last.used,
              IF r.res = "ok" THEN [ks |-> ks, vs |-> vs] ELSE last.cur,
              StepEscapes(last.kv, r.res, ks, vs))

ArrNextPairBackNone ==
  /\ last.kv.kind = "KeyValArrayMutResize"
  /\ \E r \in {Resize_next_pair_back_none(last.kv)} :
       ArrCalled("next_pair_back_none", 0, 0, r.res, r.kv, last.data, last.used,
                 IF r.res = "ok" THEN [ks |-> 0, vs |-> 0] ELSE last.cur, FALSE)

\* back_insert, called with room for the pair behind the array.
ArrBackInsert(ks, vs) ==
  /\ last.kv.kind = "KeyValArrayMutResize" /\ last.res = "ok"
  /\ last.used + ks + vs <= ArrCap
  /\ \E r \in {Resize_back_insert(last.kv, last.data, ks, vs)} :
       ArrCalled("back_insert", ks, vs, "ok", r.kv, r.data, last.used + ks + vs,
                 [ks |-> ks, vs |-> vs], r.oob)

ArrDelete ==
  /\ last.kv.kind = "KeyValArrayMutResize" /\ last.res = "ok"
  /\ \E r \in {Resize_delete(last.kv, last.data)} :
       ArrCalled("delete", last.cur.ks, last.cur.vs, "ok", r.kv, r.data, last.used - r.len,
                 [ks |-> 0, vs |-> 0], r.oob)

\* resize(delta), called with room behind the array and with the value
\* at least -delta bytes long.
ArrResize(delta) ==
  /\ last.kv.kind = "KeyValArrayMutResize" /\ last.res = "ok"
  /\ last.cur.vs + delta >= 0
  /\ last.used + delta <= ArrCap
  /\ \E r \in {Resize_resize(last.kv, last.data, delta)} :
       ArrCalled("resize", last.cur.ks, delta, "ok", r.kv, r.data, last.used + delta,
                 [ks |-> last.cur.ks, vs |-> last.cur.vs + delta], r.oob)

NextArray ==
  \/ \E ks \in StepSizes, vs \in StepSizes : ArrNextPair(ks, vs)
  \/ \E ks \in StepSizes, vs \in StepSizes : ArrNextPairBack(ks, vs)
  \/ ArrNextPairBackNone
  \/ \E ks \in 0..MaxPairLen, vs \in 0..MaxPairLen : ArrBackInsert(ks, vs)
  \/ ArrDelete
  \/ \E delta \in (0 - MaxPairLen)..MaxPairLen : ArrResize(delta)

SpecArray == InitArray /\ [][NextArray]_vars

\* C33: next_pair and next_pair_back return DataCorruption exactly when
\* the step asked for is longer than what lies between front and back,
\* front <= back holds after every call, and a failed step leaves the
\* position of the cursor and what key() and val() give unchanged.
C33_StepWithinBounds ==
  last.op \in {"next_pair", "next_pair_back"} =>
    /\ last.res = "DataCorruption"
         <=> last.ks + last.vs > last.before.kv.back - last.before.kv.front
    /\ last.kv.front <= last.kv.back
    /\ last.res = "DataCorruption" =>
         /\ last.kv.front = last.before.kv.front /\ last.kv.back = last.before.kv.back
         /\ Resize_key(last.kv) = Resize_key(last.before.kv)
         /\ Resize_val(last.kv) = Resize_val(last.before.kv)

\* The bytes of the pairs stored below address at are where they were,
\* and the bytes of the pairs stored from address from on have moved by
\* delta.
FrameKept(at, from, delta) ==
  /\ ~last.oob
  /\ \A a \in ArrBase..(at - 1) : last.data[a] = last.before.data[a]
  /\ \A a \in from..(ArrBase + last.before.used - 1) :
       a + delta \in Addr /\ last.data[a + delta] = last.before.data[a]

\* Where the pair the cursor stood on before the call ends.
PairEnd == last.before.kv.back + last.before.cur.ks + last.before.cur.vs

\* C34: back_insert, delete and resize change only the bytes of the pair
\* inserted, deleted or resized: the pairs stored before it stay at their
\* offsets and the pairs stored after it move by the size delta.
C34_OnlyTouchedPairChanges ==
  /\ last.op = "back_insert" => FrameKept(last.kv.back, last.kv.back, last.ks + last.vs)
  /\ last.op = "delete" =>
       FrameKept(last.before.kv.back, PairEnd, 0 - (last.before.cur.ks + last.before.cur.vs))
  /\ last.op = "resize" => FrameKept(last.before.kv.back, PairEnd, last.vs)

\* ---------------------------------------------------------------------
\* Entries that are kept.  VacantEntry::insert returns the OccupiedEntry
\* of the new pair, made of the cursors the insertion has used
\* (page/mod.rs:655-660), and replace and delete can be called on it.  h
\* records where its key-value cursor stands: back (off), back_val
\* (off + kl) and prev_back_key.
\* ---------------------------------------------------------------------
\* The entry VacantEntry::insert returns for the vacant entry e:
\* back_insert has left prev_back_key at the insertion point.
Inserted(ly, e, key) ==
  [idx |-> e.idx, off |-> e.off, kl |-> determine_key_len(ly, key), prev_back_key |-> e.off]

\* OccupiedEntry::replace on the entry h.
Inserted_replace(p, ly, h, value) ==
  LET new_len == determine_value_len(ly, value)
      delta == new_len - (h.prev_back_key - (h.off + h.kl))
      free == CONTENT_SIZE - total(p, ly)
  IN IF TooLarge(ly, value) THEN [res |-> "WriteTooLarge", page |-> p, oob |-> FALSE]
     ELSE IF ReplaceOutOfSpace(free, delta) THEN [res |-> "OutofSpace", page |-> p, oob |-> FALSE]
     ELSE
       Bind([c1 \in {CopyCells(p, h.prev_back_key, p, h.prev_back_key + delta,
                               lower_len(p) - h.prev_back_key)} |->
       Bind([t1 \in {add_to_lower_len(c1, delta)} |->
       Bind([c2 \in {WriteCells(t1, h.off + h.kl, ValBytes(ly, value))} |->
         [res |-> "ok",
          page |-> WriteCells(c2, CONTENT_SIZE - (h.idx + 1) * InfoSize(ly),
                              InfoBytes(ly, h.kl, new_len)),
          oob |-> Escapes(h.prev_back_key + delta, lower_len(p) - h.prev_back_key)]])])])

\* OccupiedEntry::delete on the entry h.
Inserted_delete(p, ly, h) ==
  LET sz == InfoSize(ly)
      end == CONTENT_SIZE - upper_len(p) * sz
      prev_back == CONTENT_SIZE - (h.idx + 1) * sz
      len == h.prev_back_key - h.off
  IN Bind([c1 \in {CopyCells(p, end, p, end + sz, prev_back - end)} |->
     Bind([c2 \in {CopyCells(c1, h.prev_back_key, c1, h.off, lower_len(p) - h.prev_back_key)} |->
       add_to_upper_len(add_to_lower_len(c2, 0 - len), -1)])])

\* The last call was an insert that returned its entry.
EntryKept == last.op = "insert" /\ last.res = "ok"

KeptEntry == Inserted(PageLayout, last.e, last.key)

\* replace on the entry the insert before has returned.
KeptReplace ==
  /\ PageReady /\ EntryKept
  /\ \E value \in InsertValues(pages.lower, PageLayout) :
       \E r \in {Inserted_replace(pages.lower, PageLayout, KeptEntry, value)} :
         Called("kept_replace", last.key, value, last.e, r.res, r.page, pages.higher,
                r.oob, "none")

\* delete on the entry the insert before has returned.
KeptDelete ==
  /\ PageReady /\ EntryKept
  /\ Called("kept_delete", last.key, NoValue, last.e, "ok",
            Inserted_delete(pages.lower, PageLayout, KeptEntry), pages.higher, FALSE, "none")

NextEntry ==
  \/ \E key \in LowKeys : PageInsert(key, FALSE)
  \/ \E key \in LowKeys : PageReplace(key)
  \/ \E key \in LowKeys : PageDelete(key)
  \/ KeptReplace
  \/ KeptDelete

SpecEntry == InitPage /\ [][NextEntry]_vars

\* The info records of p and its pairs match: iterating forwards and
\* backwards ends with None, with one pair for every info record.
InfoMatchesPairs(p, ly) ==
  /\ ~iter(p, ly).err /\ ~iter_rev(p, ly).err
  /\ Len(iter(p, ly).items) = upper_len(p)
  /\ Len(iter_rev(p, ly).items) = upper_len(p)

\* C35: after any sequence of page-map inserts, deletes and replaces the
\* number of info records equals the number of pairs, the i-th record
\* describes the i-th pair and the decoded lengths add up to lower_len: a
\* full iteration, forwards or backwards, ends with None and never with
\* DataCorruption.
C35_InfoMatchesPairs ==
  PageCalled /\ ~last.oob => InfoMatchesPairs(pages.lower, PageLayout)

\* ---------------------------------------------------------------------
\* Decoding and updating on their own: from_info and read_value of
\* LayoutVarU64 on info words of every shape, and update_value of the
\* three layouts on the layout from_data gives for a pair.
\* ---------------------------------------------------------------------
\* Key-length bits of the info words decoded: the lengths up to beyond
\* the limit and the largest ones.
KeyLenBits == 0..(MAX_VAR_SIZE + 2) \cup {255, 256, 2048, 4095}

InfoWords == {hi * 16 + lo : hi \in KeyLenBits, lo \in 0..15}

\* The eight bytes found where the value is stored.
StoredWords == {[i \in 1..8 |-> 255], [i \in 1..8 |-> i], [i \in 1..8 |-> IF i = 2 THEN 9 ELSE 0]}

\* Keys of the pairs updated.
UpdateKeys == {w \in Words : \A i \in 3..8 : w[i] = 0}

UpdatePairs ==
  [ly : {"U64U64"}, key : UpdateKeys, value : Words, new : Words, build : {"debug", "release"}]
    \cup [ly : {"VarU64"}, key : Strings, value : Words, new : Words, build : {"release"}]
    \cup [ly : {"U64Var"}, key : UpdateKeys,
          value : [id : {"Value"}, v : Strings] \cup [id : {"Page"}, p : Words],
          new : [id : {"Value"}, v : Strings] \cup [id : {"Page"}, p : Words],
          build : {"release"}]

InitInfo ==
  /\ junk \in JunkBytes
  /\ inner = [root |-> 0, memory |-> (0 :> PageMapMut_new(FreshPage, 1)),
              checkouts |-> <<>>, commit |-> 0]
  /\ cell = [page_num |-> 1, dirty |-> <<>>, to_drop |-> <<>>, root |-> 0]
  /\ writer = [commit |-> 0, starting_page_num |-> 1, starting_root |-> 0]
  /\ tree = NoTree
  /\ readers = [r \in Readers |-> [live |-> FALSE, root |-> -1, commit |-> -1]]
  /\ result = [op |-> "new_db", err |-> "ok"]
  /\ ub = FALSE
  /\ ref = EmptyRef
  /\ steps = 1
  /\ seen = [r \in Readers |-> NoView]
  /\ pages = NoPages
  /\ \/ \E info \in InfoWords, word \in StoredWords :
          last = [op |-> "info", info |-> info, word |-> word]
     \/ \E pair \in UpdatePairs : last = [op |-> "pair", pair |-> pair]

\* from_info(info), then read_value on the bytes stored after the key.
DecodeInfo ==
  /\ steps > 0 /\ last.op = "info"
  /\ steps' = steps - 1
  /\ \E l \in {VarU64_from_info(last.info)} :
       last' = [op |-> "decoded", info |-> last.info, word |-> last.word,
                key_len |-> l.key_len, val_len |-> l.val_len,
                value |-> VarU64_read_pair(l, [i \in 1..(l.key_len + 8) |->
                            IF i <= l.key_len THEN 7 ELSE last.word[i - l.key_len]]).value]
  /\ UNCHANGED <<treevars, pages>>

\* from_data on the pair, then update_value(new); decoded is from_info of
\* the info the updated layout gives.
Updated(pair) ==
  LET data == CASE pair.ly = "U64U64" -> U64U64_from_data(pair.key, pair.value, pair.build)
                [] pair.ly = "VarU64" -> VarU64_from_data(pair.key, pair.value)
                [] pair.ly = "U64Var" -> U64Var_from_data(pair.key, pair.value)
  IN IF data.res # "ok" THEN [res |-> data.res]
     ELSE LET u == CASE pair.ly = "U64U64" -> U64U64_update_value(data, pair.new, pair.build)
                     [] pair.ly = "VarU64" -> VarU64_update_value(data, pair.new)
                     [] pair.ly = "U64Var" -> U64Var_update_value(data, pair.new)
          IN IF u.res # "ok" THEN [res |-> u.res]
             ELSE LET d == CASE pair.ly = "U64U64" -> U64U64_from_info(u.info)
                             [] pair.ly = "VarU64" -> VarU64_from_info(u.info)
                             [] pair.ly = "U64Var" -> U64Var_from_info(u.info)
                  IN [res |-> "ok", delta |-> u.delta, val_len |-> u.val_len,
                      old_key_len |-> data.key_len, old_val_len |-> data.val_len,
                      info_key_len |-> d.key_len, info_val_len |-> d.val_len]

UpdateValue ==
  /\ steps > 0 /\ last.op = "pair"
  /\ steps' = steps - 1
  /\ last' = [op |-> "updated", pair |-> last.pair, out |-> Updated(last.pair)]
  /\ UNCHANGED <<treevars, pages>>

NextInfo == DecodeInfo \/ UpdateValue

SpecInfo == InitInfo /\ [][NextInfo]_vars

\* C36: for every info word LayoutVarU64::from_info decodes the value
\* length 8 - min(info & 0xF, 8) and the key length
\* min(info >> 4, MAX_VAR_SIZE), and read_value gives 0 for a value of
\* length 0 and otherwise the stored bytes, little-endian, with the
\* trimmed high bytes read as zero.
C36_VarU64Decodes ==
  last.op = "decoded" =>
    /\ last.val_len = 8 - Min(last.info % 16, 8)
    /\ last.key_len = Min(last.info \div 16, MAX_VAR_SIZE)
    /\ last.val_len \in 0..8
    /\ last.value = [i \in 1..8 |-> IF i <= last.val_len THEN last.word[i] ELSE 0]

\* An info word with value bits above 8 and key bits above the limit has
\* been decoded over stored bytes that are not zero.
C36_Witness ==
  /\ last.op = "decoded" /\ last.info % 16 > 8 /\ last.info \div 16 > MAX_VAR_SIZE
  /\ last.word[1] # 0 /\ last.value = Zero64 /\ last.key_len = MAX_VAR_SIZE

\* The length of the stored value new.
NewLen(ly, new) ==
  IF ly = "U64Var" THEN (IF new.id = "Page" THEN Max(8 - lz_bytes(new.p, 8), 1) ELSE Len(new.v))
  ELSE 8 - lz_bytes(new, 8)

\* C37: after update_value(new) has succeeded, info() decodes through
\* from_info to the key length as it was and to the value length of new,
\* value_len() gives that length too, and the delta returned is the new
\* value length minus the old one.
C37_UpdateValueKeepsInfo ==
  last.op = "updated" /\ last.out.res = "ok" =>
    /\ last.out.info_key_len = last.out.old_key_len
    /\ last.out.info_val_len = NewLen(last.pair.ly, last.pair.new)
    /\ last.out.val_len = NewLen(last.pair.ly, last.pair.new)
    /\ last.out.delta = NewLen(last.pair.ly, last.pair.new) - last.out.old_val_len

\* ---------------------------------------------------------------------
\* IntPage (src/int_page.rs): one page as a map from u64 to u64.  The page
\* is PAGE_4K cells with the 6-byte header at its end: len (u16), end
\* (u16), a spare byte and the page type.  Pointers are offsets into the
\* page; a u64 is the sequence of its eight little-endian bytes.
\* ---------------------------------------------------------------------
IntHeaderSize == 6

HEADER_OFFSET == PAGE_4K - IntHeaderSize

\* Header::len and Header::end.
Header_len(m) == LeValue(ReadCells(m, HEADER_OFFSET, 2)) % 4096

Header_end(m) == LeValue(ReadCells(m, HEADER_OFFSET + 2, 2)) % 4096

Header_set_len(m, len) == WriteCells(m, HEADER_OFFSET, <<len % 256, (len \div 256) % 256>>)

Header_set_end(m, end) == WriteCells(m, HEADER_OFFSET + 2, <<end % 256, (end \div 256) % 256>>)

\* IntPage::new on memory that holds anything.
IntPage_new(mem, pt) ==
  Header_set_len(Header_set_end(WriteCells(mem, PAGE_4K - 1, <<pt>>), 0), 0)

IntPage_available(m) == HEADER_OFFSET - Header_end(m) - Header_len(m)

IntPage_iter(m) ==
  [data_ptr |-> 0, data_end |-> Header_end(m),
   item_ptr |-> HEADER_OFFSET - 1, item_end |-> HEADER_OFFSET - 1 - Header_len(m)]

\* The bytes trimmed from the value, from the length byte len.
ValTrim(len) == (len \div 8) % 16

\* IntPageIter::next.
IntPageIter_next(m, it) ==
  IF it.item_end = it.item_ptr THEN [res |-> "none", it |-> it]
  ELSE
    Bind([len \in {ReadCells(m, it.item_ptr, 1)[1]} |->
    Bind([it1 \in {[it EXCEPT !.item_ptr = @ - 1]} |->
    Bind([key_trim \in {len % 8} |->
      IF it1.data_ptr >= it1.data_end THEN [res |-> "none", it |-> it1]
      ELSE
        Bind([key \in {Masked(ReadCells(m, it1.data_ptr, 8), 8 - key_trim)} |->
        Bind([it2 \in {[it1 EXCEPT !.data_ptr = @ + (8 - key_trim)]} |->
          IF ValTrim(len) >= 8 THEN [res |-> "some", k |-> key, v |-> Zero64, it |-> it2]
          ELSE IF it2.data_ptr >= it2.data_end THEN [res |-> "none", it |-> it2]
          ELSE [res |-> "some", k |-> key,
                v |-> Masked(ReadCells(m, it2.data_ptr, 8), 8 - ValTrim(len)),
                it |-> [it2 EXCEPT !.data_ptr = @ + (8 - ValTrim(len))]]])])])])])

\* IntPageIter::next_back.
IntPageIter_next_back(m, it) ==
  IF it.item_end = it.item_ptr THEN [res |-> "none", it |-> it]
  ELSE
    Bind([it1 \in {[it EXCEPT !.item_end = @ + 1]} |->
    Bind([len \in {ReadCells(m, it1.item_end, 1)[1]} |->
    Bind([it2 \in {IF ValTrim(len) >= 8 THEN it1
                   ELSE [it1 EXCEPT !.data_end = @ + (8 - ValTrim(len))]} |->
      IF ValTrim(len) < 8 /\ it2.data_end < it2.data_ptr THEN [res |-> "none", it |-> it2]
      ELSE
        Bind([val \in {IF ValTrim(len) >= 8 THEN Zero64
                       ELSE Masked(ReadCells(m, it2.data_end, 8), 8 - ValTrim(len))} |->
        Bind([it3 \in {[it2 EXCEPT !.data_end = @ + (8 - (len % 8))]} |->
          IF it3.data_end < it3.data_ptr THEN [res |-> "none", it |-> it3]
          ELSE [res |-> "some", v |-> val,
                k |-> Masked(ReadCells(m, it3.data_end, 8), 8 - (len % 8)),
                it |-> it3]])])])])])

\* k.cmp(&key) on two u64.
RECURSIVE Cmp64(_, _, _)
Cmp64(a, b, i) ==
  IF i = 0 THEN "Equal"
  ELSE IF a[i] > b[i] THEN "Greater"
  ELSE IF a[i] < b[i] THEN "Less"
  ELSE Cmp64(a, b, i - 1)

NoneU64 == <<-1>>

\* IntPage::get.
RECURSIVE IntPage_get_scan(_, _, _)
IntPage_get_scan(m, it, key) ==
  Bind([r \in {IntPageIter_next(m, it)} |->
    IF r.res = "none" THEN NoneU64
    ELSE Bind([c \in {Cmp64(r.k, key, 8)} |->
           IF c = "Greater" THEN NoneU64
           ELSE IF c = "Equal" THEN r.v
           ELSE IntPage_get_scan(m, r.it, key)])])

IntPage_get(m, key) == IntPage_get_scan(m, IntPage_iter(m), key)

\* IntPage::entry.
RECURSIVE IntPage_entry_scan(_, _, _, _)
IntPage_entry_scan(m, it, prev_data_end, key) ==
  Bind([r \in {IntPageIter_next_back(m, it)} |->
    IF r.res = "none"
      THEN [kind |-> "vacant", insert_data |-> r.it.data_end, insert_item |-> r.it.item_end]
    ELSE Bind([c \in {Cmp64(r.k, key, 8)} |->
           IF c = "Equal"
             THEN [kind |-> "occupied", val |-> r.v, insert_data |-> r.it.data_end,
                   insert_item |-> r.it.item_end, next_data |-> prev_data_end]
           ELSE IF c = "Less"
             THEN [kind |-> "vacant", insert_data |-> prev_data_end,
                   insert_item |-> r.it.item_end - 1]
           ELSE IntPage_entry_scan(m, r.it, r.it.data_end, key)])])

IntPage_entry(m, key) ==
  IntPage_entry_scan(m, IntPage_iter(m), IntPage_iter(m).data_end, key)

\* The key and the value are written at insert_data over what is there.
WriteIntPair(m, insert_data, key, key_trim, val, val_trim) ==
  Bind([m1 \in {WriteCells(m, insert_data,
                           Merged(ReadCells(m, insert_data, 8), key, 8 - key_trim))} |->
    WriteCells(m1, insert_data + (8 - key_trim),
               Merged(ReadCells(m1, insert_data + (8 - key_trim), 8), val, 8 - val_trim))])

\* VacantEntry::insert.  fault: a length that is negative is taken as a
\* usize, or a copy or write leaves the page.
IntVacant_insert(m, e, key, val) ==
  LET key_trim == Min(lz_bytes(key, 8), 7)
      val_trim == lz_bytes(val, 8)
      pair_len == 16 - (key_trim + val_trim)
      end == HEADER_OFFSET - 1 - Header_len(m)
      item_copy == e.insert_item - end
      data_copy == Header_end(m) - (e.insert_data % PAGE_4K)
  IN IF IntPage_available(m) < 0 THEN [res |-> "fault", page |-> m]
     ELSE IF pair_len >= IntPage_available(m) THEN [res |-> "OutofSpace", page |-> m]
     ELSE IF item_copy < 0 \/ data_copy < 0
               \/ Escapes(end, item_copy) \/ Escapes(e.insert_data + pair_len, data_copy)
               \/ Escapes(e.insert_item, 1) \/ Escapes(e.insert_data, 16 - key_trim)
       THEN [res |-> "fault", page |-> m]
     ELSE
       Bind([m1 \in {CopyCells(m, end + 1, m, end, item_copy)} |->
       Bind([m2 \in {WriteCells(m1, e.insert_item, <<(val_trim * 8 + key_trim) % 256>>)} |->
       Bind([m3 \in {CopyCells(m2, e.insert_data, m2, e.insert_data + pair_len, data_copy)} |->
       Bind([m4 \in {WriteIntPair(m3, e.insert_data, key, key_trim, val, val_trim)} |->
         [res |-> "ok",
          page |-> Header_set_len(Header_set_end(m4, Header_end(m4) + pair_len),
                                  Header_len(m4) + 1)]])])])])

\* OccupiedEntry::insert.  A difference below zero (available() less
\* old_data_len, the new end) panics in a debug build and wraps in a
\* release build.
IntOccupied_insert(m, e, key, val, build) ==
  LET key_trim == Min(lz_bytes(key, 8), 7)
      val_trim == lz_bytes(val, 8)
      pair_len == 16 - (key_trim + val_trim)
      old_data_len == e.insert_item - e.insert_data
      room == IntPage_available(m) - old_data_len
      data_copy == Header_end(m) - (e.next_data % PAGE_4K)
      end == Header_end(m) + pair_len - (old_data_len % 65536)
  IN IF IntPage_available(m) < 0 \/ old_data_len < 0
          \/ ((room < 0 \/ end < 0) /\ build = "debug")
       THEN [res |-> "fault", page |-> m]
     ELSE IF room >= 0 /\ pair_len > room THEN [res |-> "OutofSpace", page |-> m]
     ELSE IF data_copy < 0
               \/ Escapes(e.insert_data + pair_len, data_copy)
               \/ Escapes(e.insert_item, 1) \/ Escapes(e.insert_data, 16 - key_trim)
       THEN [res |-> "fault", page |-> m]
     ELSE
       Bind([m2 \in {WriteCells(m, e.insert_item, <<(val_trim * 8 + key_trim) % 256>>)} |->
       Bind([m3 \in {CopyCells(m2, e.next_data, m2, e.insert_data + pair_len, data_copy)} |->
       Bind([m4 \in {WriteIntPair(m3, e.insert_data, key, key_trim, val, val_trim)} |->
         [res |-> "ok", old |-> e.val, page |-> Header_set_end(m4, end % 65536)]])])])

\* OccupiedEntry::delete.
IntOccupied_delete(m, e) ==
  LET last_item == HEADER_OFFSET + 1 - Header_len(m)
      item_copy == e.insert_item - last_item
      data_copy == Header_end(m) - (e.next_data % PAGE_4K)
      old_data_len == (e.next_data - e.insert_data) % 65536
  IN IF item_copy < 0 \/ data_copy < 0 \/ Header_end(m) < old_data_len \/ Header_len(m) = 0
          \/ Escapes(last_item + 1, item_copy) \/ Escapes(e.insert_data, data_copy)
       THEN [res |-> "fault", page |-> m]
     ELSE
       Bind([m1 \in {CopyCells(m, last_item, m, last_item + 1, item_copy)} |->
       Bind([m2 \in {CopyCells(m1, e.next_data, m1, e.insert_data, data_copy)} |->
         [res |-> "ok",
          page |-> Header_set_len(Header_set_end(m2, Header_end(m2) - old_data_len),
                                  Header_len(m2) - 1)]])])

\* IntPage::insert: what it returns (ret) and the page it leaves.
IntPage_insert(m, key, val, build) ==
  Bind([e \in {IntPage_entry(m, key)} |->
    IF e.kind = "occupied"
      THEN Bind([r \in {IntOccupied_insert(m, e, key, val, build)} |->
             [ret |-> IF r.res = "ok" THEN r.old ELSE r.res, res |-> r.res, page |-> r.page]])
      ELSE Bind([r \in {IntVacant_insert(m, e, key, val)} |->
             [ret |-> IF r.res = "ok" THEN NoneU64 ELSE r.res, res |-> r.res, page |-> r.page]])])

\* IntPage::remove.
IntPage_remove(m, key) ==
  Bind([e \in {IntPage_entry(m, key)} |->
    IF e.kind = "occupied"
      THEN Bind([r \in {IntOccupied_delete(m, e)} |->
             [ret |-> IF r.res = "ok" THEN e.val ELSE r.res, res |-> r.res, page |-> r.page]])
      ELSE [ret |-> NoneU64, res |-> "ok", page |-> m]])

\* Calls made on one IntPage.
IntOps == 3

\* The u64 whose lowest byte is b and whose second byte is c.
U64Of(b, c) == [i \in 1..8 |-> IF i = 1 THEN b ELSE IF i = 2 THEN c ELSE 0]

IntKeys == {U64Of(0, 0), U64Of(1, 0), U64Of(0, 1)}

IntValues == {U64Of(0, 0), U64Of(3, 0), U64Of(0, 1)}

InitInt ==
  /\ junk \in JunkBytes
  /\ inner = [root |-> 0, memory |-> (0 :> PageMapMut_new(FreshPage, 1)),
              checkouts |-> <<>>, commit |-> 0]
  /\ cell = [page_num |-> 1, dirty |-> <<>>, to_drop |-> <<>>, root |-> 0]
  /\ writer = [commit |-> 0, starting_page_num |-> 1, starting_root |-> 0]
  /\ tree = NoTree
  /\ readers = [r \in Readers |-> [live |-> FALSE, root |-> -1, commit |-> -1]]
  /\ result = [op |-> "new_db", err |-> "ok"]
  /\ ub = FALSE
  /\ ref = EmptyRef
  /\ steps = IntOps
  /\ seen = [r \in Readers |-> NoView]
  /\ pages = [lower |-> IntPage_new(FreshPage, 0), higher |-> FreshPage]
  /\ last = [op |-> "new", res |-> "ok", map |-> [k \in IntKeys |-> NoneU64]]

\* The call op(key, val) has returned ret and left the page; want is what
\* a map returns for the call and map the map it leaves.
IntCalled(op, key, val, ret, res, page, want, map) ==
  /\ steps' = steps - 1
  /\ pages' = [pages EXCEPT !.lower = page]
  /\ last' = [op |-> op, key |-> key, val |-> val, ret |-> ret, res |-> res,
              want |-> want, map |-> map]
  /\ UNCHANGED treevars

\* The page has calls left and no call has faulted.
IntReady == steps > 0 /\ last.res # "fault"

IntGet(key) ==
  IntReady /\
  IntCalled("get", key, NoneU64, IntPage_get(pages.lower, key), "ok", pages.lower,
            last.map[key], last.map)

IntInsert(key, val, build) ==
  IntReady /\
  \E r \in {IntPage_insert(pages.lower, key, val, build)} :
    IntCalled("insert", key, val, r.ret, r.res, r.page, last.map[key],
              [last.map EXCEPT ![key] = val])

IntRemove(key) ==
  IntReady /\
  \E r \in {IntPage_remove(pages.lower, key)} :
    IntCalled("remove", key, NoneU64, r.ret, r.res, r.page, last.map[key],
              [last.map EXCEPT ![key] = NoneU64])

NextInt ==
  \/ \E key \in IntKeys : IntGet(key)
  \/ \E key \in IntKeys, val \in IntValues, build \in {"debug", "release"} :
       IntInsert(key, val, build)
  \/ \E key \in IntKeys : IntRemove(key)

SpecInt == InitInt /\ [][NextInt]_vars

\* C38: an IntPage behaves as a map from u64 to u64: get gives the value
\* last inserted for the key and None for a key never inserted or
\* removed, insert gives None for a new key and the old value for a key
\* that is present, remove gives the value that was present or None.
C38_IntPageIsMap ==
  last.op # "new" =>
    /\ last.res = "ok" /\ last.ret = last.want
    /\ \A k \in IntKeys : IntPage_get(pages.lower, k) = last.map[k]

\* ---------------------------------------------------------------------
\* IdTracker (src/lib.rs): the transaction ids readers are checked out
\* at.  tracker is the Vec of (id, count) pairs.  last holds the tracker
\* (t) and, for every id, the readers checked out at it and not yet
\* checked in (held).
\* ---------------------------------------------------------------------
\* The largest transaction id.
MaxId == 3

\* Readers checked out at one time.
MaxHeld == 3

\* Calls made on one tracker.
IdOps == 7

Ids == 0..MaxId

IdTracker_new(id) == [newest |-> id, oldest |-> id, tracker |-> <<>>]

\* IdTracker::find_id: the first position holding id, 0 for None.
IdTracker_find_id(t, id) ==
  IF \E i \in 1..Len(t.tracker) : t.tracker[i][1] = id
    THEN CHOOSE i \in 1..Len(t.tracker) :
           t.tracker[i][1] = id /\ \A j \in 1..(i - 1) : t.tracker[j][1] # id
    ELSE 0

\* Vec::swap_remove.
swap_remove(v, pos) ==
  [i \in 1..(Len(v) - 1) |-> IF i = pos THEN v[Len(v)] ELSE v[i]]

\* fold(init, |acc, (id, _)| acc.min(id)).
RECURSIVE FoldMin(_, _, _)
FoldMin(v, i, acc) == IF i > Len(v) THEN acc ELSE FoldMin(v, i + 1, Min(acc, v[i][1]))

\* A checkin that takes the newest id for the oldest when an id is dropped.
IdTracker_checkin_newest(t, id) ==
  Bind([pos \in {IdTracker_find_id(t, id)} |->
    IF pos = 0 THEN [res |-> "panic", t |-> t]
    ELSE IF t.tracker[pos][2] - 1 = 0
      THEN [res |-> "ok",
            t |-> [t EXCEPT !.tracker = swap_remove(t.tracker, pos), !.oldest = t.newest]]
    ELSE [res |-> "ok", t |-> [t EXCEPT !.tracker[pos] = <<id, @[2] - 1>>]]])

\* IdTracker::checkout: the tracker afterwards; the id returned is newest.
IdTracker_checkout(t) ==
  Bind([pos \in {IdTracker_find_id(t, t.newest)} |->
    IF pos # 0 /\ t.tracker[pos][1] = t.newest
      THEN [t EXCEPT !.tracker[pos] = <<@[1], @[2] + 1>>]
      ELSE [t EXCEPT !.tracker = Append(@, <<t.newest, 1>>)]])

\* IdTracker::checkin.
IdTracker_checkin(t, id) ==
  Bind([pos \in {IdTracker_find_id(t, id)} |->
    IF pos = 0 THEN [res |-> "panic", t |-> t]
    ELSE IF t.tracker[pos][2] - 1 = 0
      THEN Bind([v \in {swap_remove(t.tracker, pos)} |->
             [res |-> "ok",
              t |-> [t EXCEPT !.tracker = v, !.oldest = FoldMin(v, 1, t.newest)]]])
    ELSE [res |-> "ok", t |-> [t EXCEPT !.tracker[pos] = <<id, @[2] - 1>>]]])

IdTracker_set_newest(t, newest) == [t EXCEPT !.newest = newest]

InitIds ==
  /\ junk \in JunkBytes
  /\ inner = [root |-> 0, memory |-> (0 :> PageMapMut_new(FreshPage, 1)),
              checkouts |-> <<>>, commit |-> 0]
  /\ cell = [page_num |-> 1, dirty |-> <<>>, to_drop |-> <<>>, root |-> 0]
  /\ writer = [commit |-> 0, starting_page_num |-> 1, starting_root |-> 0]
  /\ tree = NoTree
  /\ readers = [r \in Readers |-> [live |-> FALSE, root |-> -1, commit |-> -1]]
  /\ result = [op |-> "new_db", err |-> "ok"]
  /\ ub = FALSE
  /\ ref = EmptyRef
  /\ steps = IdOps
  /\ seen = [r \in Readers |-> NoView]
  /\ pages = NoPages
  /\ \E id \in 0..1 :
       last = [op |-> "new", res |-> "ok", id |-> id, t |-> IdTracker_new(id),
               held |-> [i \in Ids |-> 0], dropped |-> FALSE]

IdCalled(op, id, res, t, held) ==
  /\ steps' = steps - 1
  /\ last' = [op |-> op, res |-> res, id |-> id, t |-> t, held |-> held,
              dropped |-> Len(t.tracker) < Len(last.t.tracker)]
  /\ UNCHANGED <<treevars, pages>>

\* The number of readers checked out.
RECURSIVE HeldSum(_, _)
HeldSum(held, i) == IF i > MaxId THEN 0 ELSE held[i] + HeldSum(held, i + 1)

\* A reader checks out and keeps the id returned.
IdCheckout ==
  /\ steps > 0 /\ HeldSum(last.held, 0) < MaxHeld
  /\ IdCalled("checkout", last.t.newest, "ok", IdTracker_checkout(last.t),
              [last.held EXCEPT ![last.t.newest] = @ + 1])

\* A reader that holds id checks it in.
IdCheckin(id) ==
  /\ steps > 0 /\ last.held[id] > 0
  /\ \E r \in {IdTracker_checkin(last.t, id)} :
       IdCalled("checkin", id, r.res, r.t, [last.held EXCEPT ![id] = @ - 1])

\* The writer commits: set_newest with an id that is not smaller.
IdSetNewest(newest) ==
  /\ steps > 0 /\ newest >= last.t.newest
  /\ IdCalled("set_newest", newest, "ok", IdTracker_set_newest(last.t, newest), last.held)

NextIds ==
  \/ IdCheckout
  \/ \E id \in Ids : IdCheckin(id)
  \/ \E newest \in Ids : IdSetNewest(newest)

SpecIds == InitIds /\ [][NextIds]_vars

\* C40: after any checkouts, matching checkins and set_newest calls that
\* do not decrease, oldest_id() is at most the id of every reader still
\* checked out, every tracked id has as its count the checkouts of it
\* that are outstanding, and an id is tracked exactly as long as that
\* count is not zero (it is dropped when a checkin brings it to zero, and
\* by nothing else).
C40_OldestBelowReaders ==
  /\ last.res = "ok"
  /\ \A id \in Ids : last.held[id] > 0 => last.t.oldest <= id
  /\ \A id \in Ids :
       Cardinality({i \in 1..Len(last.t.tracker) : last.t.tracker[i][1] = id})
         = (IF last.held[id] > 0 THEN 1 ELSE 0)
  /\ \A i \in 1..Len(last.t.tracker) :
       last.t.tracker[i][2] = last.held[last.t.tracker[i][1]]
  /\ last.dropped <=> (last.op = "checkin" /\ last.held[last.id] = 0)

\* A checkin has dropped an id while readers are out at two other ids,
\* one of them checked out before the dropped one.
C40_Witness ==
  /\ last.op = "checkin" /\ last.dropped
  /\ Len(last.t.tracker) = 2
  /\ \E i \in 1..2 : last.t.tracker[i][1] < last.id
  /\ last.t.oldest < last.t.newest

\* ---------------------------------------------------------------------
\* Pages of the transaction and the tree

\* The pages of the open transaction (allocated, or written as the copy
\* of a Clean load_mut, and not deallocated since) that no path from page
\* root leads to, when the transaction holds the pages dirty over the
\* committed pages memory.
LeakedIn(dirty, memory, root) ==
  DOMAIN dirty
    \ Reach([n \in DOMAIN dirty \cup DOMAIN memory |->
               IF n \in DOMAIN dirty THEN dirty[n] ELSE memory[n]], root, MaxDepth)

Leaked == LeakedIn(cell.dirty, inner.memory, IF tree.open THEN tree.root ELSE cell.root)

\* The step is the return of a tree write operation: BasicDbWrite::tree,
\* or entry followed by insert, insert_vectored, replace or delete.
TreeWrote ==
  /\ result'.op \in {"tree", "insert", "insert_vectored", "replace", "delete"}
  /\ tree'.open
  /\ <<inner, cell, tree, result, steps>>' # <<inner, cell, tree, result, steps>>

====
